---- MODULE Spec2Model ----
(***************************************************************************)
(* The resumable Zarr build driver of preprocess_data/build_zarr.py.       *)
(*                                                                         *)
(* A driver process reads the settings, loads the completion state from    *)
(* completion_checks/zarr_build_completion.json, walks the (frequency,     *)
(* experiment) units, builds and writes one store per unit that is not     *)
(* marked complete, and rewrites the completion file after every unit.     *)
(* The process can be killed at any step and started again.                *)
(*                                                                         *)
(* The completion file is modelled by what reaches the disk: whether the   *)
(* file exists, the entries of the JSON object written so far, in order,   *)
(* and whether the closing brace has been written.  open(path, 'w')        *)
(* truncates the file, json.dump writes the object piece by piece, and     *)
(* only the text with its closing brace parses.                            *)
(*                                                                         *)
(* Spec follows the driver unit by unit, with kills and edits of the       *)
(* settings, and leaves open whether the build of a unit succeeds.         *)
(* SpecBuild follows runs over given input files variable by variable:     *)
(* the variable list, the base dataset read from the files of T, and for   *)
(* each variable the sort by time, the time axis, the chunks, the merge.   *)
(* SpecTwo runs two drivers at once on the same completion file.           *)
(*                                                                         *)
(* The utilities have specifications of their own, which apply them to     *)
(* inputs drawn at the start: SpecVars the variable lists of               *)
(* utils/path_utils.py and build_variable_list.py, SpecCf the CF names of  *)
(* add_cf_conventions.py, SpecNc the repair of fix_duplicate_times.py.     *)
(***************************************************************************)
EXTENDS Naturals, Sequences, FiniteSets, TLC

\* ------------------------------------------------------------------ bounds

\* Number of experiments the settings may name: "exp1" .. "expN".
NumExperiments == 2

\* Number of times the settings file is edited between runs.
MaxEdits == 1

\* Number of records the files of a variable may hold.
MaxRecords == 3

\* The lines of the tag file.
MaxTags == 2

\* The calls of a utility function that are followed.
MaxCalls == 2

\* The rows of a CF master file.
MaxRows == 2

\* ------------------------------------------------------- settings (inputs)

Procs == {1, 2}

\* The driver processes that run under Spec: one, as the repository runs it.
Drivers == {1}

Experiment(n) == "exp" \o ToString(n)

AllExperiments == [n \in 1..NumExperiments |-> Experiment(n)]

Reverse(s) == [k \in 1..Len(s) |-> s[Len(s) + 1 - k]]

\* The experiment lists a settings file may hold: the first experiment alone,
\* all of them, or all of them in the opposite order.
ExperimentLists ==
    {SubSeq(AllExperiments, 1, 1), AllExperiments, Reverse(AllExperiments)}

\* The frequencies get_variables_for_experiment accepts.
ValidFrequencies == {"mon", "day"}

\* The frequency lists a settings file may hold; "yr" is a value the code
\* does not know.
FrequencyLists ==
    {<<"day", "mon">>, <<"mon", "yr">>}

directory_root == "root"

Settings ==
    [frequencies : FrequencyLists, experiments : ExperimentLists]

\* Settings in which every frequency is one the code knows.
ValidSettings ==
    {s \in Settings : \A k \in DOMAIN s.frequencies :
                          s.frequencies[k] \in ValidFrequencies}

\* ------------------------------------------------- ordered dictionaries

\* A Python dict: a sequence of <<key, value>> pairs with distinct keys, in
\* insertion order.
Range(seq) == {seq[k] : k \in DOMAIN seq}

Keys(d) == {d[k][1] : k \in DOMAIN d}

\* dict.get(key, dflt)
Get(d, key, dflt) ==
    IF key \in Keys(d)
    THEN d[CHOOSE k \in DOMAIN d : d[k][1] = key][2]
    ELSE dflt

\* d[key] = val
Put(d, key, val) ==
    IF key \in Keys(d)
    THEN [k \in DOMAIN d |-> IF d[k][1] = key THEN <<key, val>> ELSE d[k]]
    ELSE Append(d, <<key, val>>)

\* d.update(e): the keys of d keep their places and take the values e gives
\* them; the keys d does not hold follow, in the order of e.
Update(d, e) ==
    [k \in DOMAIN d |-> <<d[k][1], Get(e, d[k][1], d[k][2])>>]
        \o SelectSeq(e, LAMBDA x : x[1] \notin Keys(d))

\* ------------------------------------------------------- build_zarr.py

\* Mutant of completion_key: the frequency comes first.
completion_key_frequency_first(experiment, frequency) ==
    frequency \o "|" \o experiment

completion_key(experiment, frequency) == experiment \o "|" \o frequency

\* Mutant of is_store_complete: the flag is never found.
is_store_complete_never(state, experiment, frequency) == FALSE

is_store_complete(state, experiment, frequency) ==
    Get(state, completion_key(experiment, frequency), FALSE)

\* pathname_out of a unit
StorePath(root, experiment, frequency) ==
    root \o "/" \o experiment \o "/" \o experiment \o "." \o frequency \o ".zarr"

\* Mutant of UnitOrder: the loop over the experiments is the outer one.
UnitOrderExperimentsOuter(frequencies, experiments) ==
    [k \in 1..(Len(frequencies) * Len(experiments)) |->
        <<frequencies[((k - 1) % Len(frequencies)) + 1],
          experiments[((k - 1) \div Len(frequencies)) + 1]>>]

\* The units in the order the two for loops visit them; a unit is
\* <<frequency, experiment>>.
UnitOrder(frequencies, experiments) ==
    [k \in 1..(Len(frequencies) * Len(experiments)) |->
        <<frequencies[((k - 1) \div Len(experiments)) + 1],
          experiments[((k - 1) % Len(experiments)) + 1]>>]

\* The dict comprehension of load_completion_state: the key of every pair,
\* at the place of its first occurrence, with False.
DefaultState(units) ==
    LET key(k) == completion_key(units[k][2], units[k][1])
        first == SelectSeq([k \in DOMAIN units |-> k],
                           LAMBDA k : \A j \in 1..(k - 1) : key(j) # key(k))
    IN  [n \in DOMAIN first |-> <<key(first[n]), FALSE>>]

AbsentFile == [exists |-> FALSE, entries |-> <<>>, closed |-> FALSE]

\* What open(path, 'w') leaves on disk: an empty file.
TruncatedFile == [exists |-> TRUE, entries |-> <<>>, closed |-> FALSE]

\* A file holding the whole of json.dump(state).
WholeFile(state) == [exists |-> TRUE, entries |-> state, closed |-> TRUE]

\* Mutant of json_load: text that does not parse is read as an empty object.
json_load_lenient(f) ==
    [raised |-> FALSE, value |-> IF f.closed THEN f.entries ELSE <<>>]

\* json.load: the text parses only when the object was written to its end.
json_load(f) ==
    IF f.closed
    THEN [raised |-> FALSE, value |-> f.entries]
    ELSE [raised |-> TRUE, value |-> <<>>]

\* Mutant of load_completion_state: the file is read but never overlaid.
load_without_update(frequencies, experiments, f) ==
    LET default == DefaultState(UnitOrder(frequencies, experiments))
    IN  IF ~f.exists
        THEN [raised |-> FALSE, value |-> default]
        ELSE [raised |-> json_load(f).raised, value |-> default]

\* Mutant of load_completion_state: only the configured keys are taken from
\* the file.
load_configured_only(frequencies, experiments, f) ==
    LET default == DefaultState(UnitOrder(frequencies, experiments))
    IN  IF ~f.exists
        THEN [raised |-> FALSE, value |-> default]
        ELSE LET on_disk == json_load(f)
             IN  IF on_disk.raised
                 THEN [raised |-> TRUE, value |-> <<>>]
                 ELSE [raised |-> FALSE,
                       value |-> [k \in DOMAIN default |->
                                     <<default[k][1],
                                       Get(on_disk.value, default[k][1], FALSE)>>]]

\* Mutant of load_completion_state: no os.path.isfile test, so that opening a
\* file that does not exist raises.
load_without_isfile(frequencies, experiments, f) ==
    LET default == DefaultState(UnitOrder(frequencies, experiments))
        on_disk == json_load(f)
    IN  IF on_disk.raised
        THEN [raised |-> TRUE, value |-> <<>>]
        ELSE [raised |-> FALSE, value |-> Update(default, on_disk.value)]

load_completion_state(frequencies, experiments, f) ==
    LET default == DefaultState(UnitOrder(frequencies, experiments))
    IN  IF ~f.exists
        THEN [raised |-> FALSE, value |-> default]
        ELSE LET on_disk == json_load(f)
             IN  IF on_disk.raised
                 THEN [raised |-> TRUE, value |-> <<>>]
                 ELSE [raised |-> FALSE, value |-> Update(default, on_disk.value)]

\* ------------------------------------------------- utils/path_utils.py

\* sorted(), sortby(): a stable sort of a sequence; key[i] is the number
\* the i-th element is sorted by.
StableSort(s, key) ==
    LET rank == [i \in DOMAIN s |-> key[i]]
        pos == [i \in DOMAIN s |->
                   Cardinality({j \in DOMAIN s : rank[j] < rank[i]})
                       + Cardinality({j \in 1..(i - 1) : rank[j] = rank[i]})
                       + 1]
    IN  [k \in DOMAIN s |-> s[CHOOSE i \in DOMAIN s : pos[i] = k]]

\* The rows <<variable, classification>> of the list of vanilla variables of
\* a frequency, as the files of assets/ give them (input data).
VanillaRows(frequency) ==
    IF frequency = "mon"
    THEN << <<"T", "both">>, <<"PS", "no_tag">>, <<"H2OV", "tag">> >>
    ELSE << <<"T", "both">>, <<"PS", "both">> >>

\* The place of a value in a sequence that holds it once.
IndexOf(seq, x) == CHOOSE k \in DOMAIN seq : seq[k] = x

\* The names of the model, those of variables and normalized ones, in the
\* order Python compares strings.
NameOrder ==
    <<"H2OV", "LAT05SV", "LAT15SV", "LAT5SV", "LON005EV", "LON05EV",
      "NINO34V", "PRECRC_LAT05Sr", "PRECRC_LAT15Sr", "PRECRC_LAT5Sr",
      "PRECRC_LON005Er", "PRECRC_LON05Er", "PRECRC_NINO34r",
      "PRECRL_LAT05SR", "PRECRL_LAT15SR", "PRECRL_LAT5SR",
      "PRECRL_LON005ER", "PRECRL_LON05ER", "PRECRL_NINO34R",
      "PRECSC_LAT05Ss", "PRECSC_LAT15Ss", "PRECSC_LAT5Ss",
      "PRECSC_LON005Es", "PRECSC_LON05Es", "PRECSC_NINO34s",
      "PRECSL_LAT05SS", "PRECSL_LAT15SS", "PRECSL_LAT5SS",
      "PRECSL_LON005ES", "PRECSL_LON05ES", "PRECSL_NINO34S", "PS", "T">>

\* The rank of a pair of names in the order Python compares tuples: by the
\* first name, then by the second.
PairRank(pair) ==
    IndexOf(NameOrder, pair[1]) * (Len(NameOrder) + 1)
        + IndexOf(NameOrder, pair[2])

\* The experiment names that hold "tag": none of "exp1", "exp2", ...
TagExperiments == {"iso-piControl-tag"}

\* The lines the tag file may hold.  A tag is its text and what the regular
\* expression ^(LAT|LON)(\d+)([SNEW])$ finds in it: whether it matches, the
\* prefix, the number the digits stand for, and the direction.
TagValues ==
    {[text |-> "LAT5S", matches |-> TRUE, prefix |-> "LAT", num |-> 5,
      direction |-> "S"],
     [text |-> "LAT15S", matches |-> TRUE, prefix |-> "LAT", num |-> 15,
      direction |-> "S"],
     [text |-> "LON05E", matches |-> TRUE, prefix |-> "LON", num |-> 5,
      direction |-> "E"],
     [text |-> "NINO34", matches |-> FALSE, prefix |-> "", num |-> 0,
      direction |-> ""]}

\* f"{n:0{width}d}" for a number below 1000.
ZeroPadded(n, width) ==
    LET digits == IF n < 10 THEN 1 ELSE IF n < 100 THEN 2 ELSE 3
    IN  (IF width - digits >= 2 THEN "00"
         ELSE IF width - digits = 1 THEN "0" ELSE "")
            \o ToString(n)

\* _normalize_tag_padded: two digits for LAT, three for LON; a text that
\* does not match is returned as it is.
normalize_tag_padded(tag) ==
    IF ~tag.matches
    THEN tag.text
    ELSE tag.prefix
             \o ZeroPadded(tag.num, IF tag.prefix = "LAT" THEN 2 ELSE 3)
             \o tag.direction

tags_pref == <<"", "PRECRC_", "PRECRL_", "PRECSC_", "PRECSL_">>
tags_suff == <<"V", "r", "R", "s", "S">>

\* zip(a, b)
Zip(a, b) ==
    [k \in 1..(IF Len(a) < Len(b) THEN Len(a) ELSE Len(b)) |-> <<a[k], b[k]>>]

\* dict(pairs): every key at the place of its first pair, with the value of
\* its last pair.
DictOf(pairs) ==
    LET first == SelectSeq([k \in DOMAIN pairs |-> k],
                     LAMBDA k : \A j \in 1..(k - 1) : pairs[j][1] # pairs[k][1])
        last(key) == CHOOSE k \in DOMAIN pairs :
                         /\ pairs[k][1] = key
                         /\ \A j \in DOMAIN pairs :
                                pairs[j][1] = key => j <= k
    IN  [n \in DOMAIN first |->
            <<pairs[first[n]][1], pairs[last(pairs[first[n]][1])][2]>>]

\* Lines 98-112: for each pair of a prefix and a suffix, and each tag, the
\* variable and its normalized name, as <<normalized, variable>>.
TagDerived(tags) ==
    LET combos == Zip(tags_pref, tags_suff)
    IN  [n \in 1..(Len(combos) * Len(tags)) |->
            LET combo == combos[((n - 1) \div Len(tags)) + 1]
                tag == tags[((n - 1) % Len(tags)) + 1]
            IN  <<combo[1] \o normalize_tag_padded(tag) \o combo[2],
                  combo[1] \o tag.text \o combo[2]>>]

\* Mutant of get_variables_for_experiment: the pairs are not sorted.
get_variables_unsorted(experiment, frequency, tags) ==
    IF frequency \notin ValidFrequencies
    THEN [raised |-> TRUE, variables |-> <<>>, output_map |-> <<>>]
    ELSE LET use_tags == experiment \in TagExperiments
             kept == SelectSeq(VanillaRows(frequency),
                         LAMBDA r : \/ r[2] = "both"
                                    \/ (use_tags /\ r[2] = "tag")
                                    \/ (~use_tags /\ r[2] = "no_tag"))
             pairs == [k \in DOMAIN kept |-> <<kept[k][1], kept[k][1]>>]
                          \o (IF use_tags THEN TagDerived(tags) ELSE <<>>)
         IN  [raised |-> FALSE,
              variables |-> [k \in DOMAIN pairs |-> pairs[k][2]],
              output_map |->
                  DictOf([k \in DOMAIN pairs |-> <<pairs[k][2], pairs[k][1]>>])]

\* get_variables_for_experiment: the vanilla variables the classification
\* keeps, the variables derived from the tags when the experiment name holds
\* "tag", all sorted by normalized name, and the dict from each variable to
\* its normalized name.
get_variables_for_experiment(experiment, frequency, tags) ==
    IF frequency \notin ValidFrequencies
    THEN [raised |-> TRUE, variables |-> <<>>, output_map |-> <<>>]
    ELSE LET use_tags == experiment \in TagExperiments
             kept == SelectSeq(VanillaRows(frequency),
                         LAMBDA r : \/ r[2] = "both"
                                    \/ (use_tags /\ r[2] = "tag")
                                    \/ (~use_tags /\ r[2] = "no_tag"))
             zipped == [k \in DOMAIN kept |-> <<kept[k][1], kept[k][1]>>]
                           \o (IF use_tags THEN TagDerived(tags) ELSE <<>>)
             pairs == StableSort(zipped,
                                 [k \in DOMAIN zipped |-> PairRank(zipped[k])])
         IN  [raised |-> FALSE,
              variables |-> [k \in DOMAIN pairs |-> pairs[k][2]],
              output_map |->
                  DictOf([k \in DOMAIN pairs |-> <<pairs[k][2], pairs[k][1]>>])]

\* --------------------------------------- build_zarr.py: the build of a unit

get_filepath_glob(dir_root, frequency, experiment, variable) ==
    dir_root \o "/" \o frequency \o "/" \o experiment \o "/" \o variable
        \o "/" \o experiment \o "." \o variable \o "." \o frequency \o ".????.nc"

\* What the files that match a glob hold (input data): whether any file
\* matches, whether the files have the field time_bnds, the dimensions of the
\* variable, and the records in the order open_mfdataset concatenates them,
\* each with its time, and the lower and upper bound of its interval.
NoFiles ==
    [matched |-> FALSE, has_bnds |-> FALSE, dims |-> {}, records |-> <<>>]

\* The files a glob matches: none when the tree holds nothing for it.
FilesAt(tr, pathglob) ==
    IF pathglob \in DOMAIN tr THEN tr[pathglob] ELSE NoFiles

\* xarray's Dataset: the static fields and the files they were read from,
\* the global attributes, the time axis once a variable has brought one, and
\* the data variables, each with its name, dimensions, time chunk and the
\* time axis its records came with.
NoDataset ==
    [static |-> {}, static_from |-> "",
     attrs |-> [experiment |-> "", output_frequency |-> "", created_by |-> ""],
     has_time |-> FALSE, time |-> <<>>, data_vars |-> <<>>]

\* set_attrs_ds
set_attrs_ds(ds, experiment, frequency) ==
    [ds EXCEPT !.attrs =
        [experiment |-> experiment,
         output_frequency |-> IF frequency = "mon" THEN "monthly"
                              ELSE IF frequency = "day" THEN "daily"
                              ELSE "",
         created_by |-> "Kyle Heyblom"]]

\* set_ds_base: the hybrid coordinates and P0 of the files of T, with the
\* attributes; raises when no file of T matches.
set_ds_base(tr, dir_root, experiment, frequency) ==
    LET pathglob == get_filepath_glob(dir_root, frequency, experiment, "T")
    IN  IF ~FilesAt(tr, pathglob).matched
        THEN [raised |-> TRUE, ds |-> NoDataset]
        ELSE [raised |-> FALSE,
              ds |-> set_attrs_ds(
                         [NoDataset EXCEPT
                             !.static = {"hyai", "hyam", "hybi", "hybm", "P0"},
                             !.static_from = pathglob],
                         experiment, frequency)]

\* Mutant of normalize_time: the records are left in the order of the files.
normalize_time_unsorted(records, frequency) ==
    IF frequency = "mon"
    THEN [k \in DOMAIN records |-> records[k].lo]
    ELSE [k \in DOMAIN records |-> records[k].time]

\* Lines 196-201: the records sorted by time; the time axis is the lower
\* bounds of the sorted records for monthly data, their times otherwise.
normalize_time(records, frequency) ==
    LET sorted == StableSort(records,
                             [k \in DOMAIN records |-> records[k].time])
    IN  IF frequency = "mon"
        THEN [k \in DOMAIN sorted |-> sorted[k].lo]
        ELSE [k \in DOMAIN sorted |-> sorted[k].time]

\* Mutant of chunk_plan: only the dimension lev is looked for.
chunk_plan_lev_only(frequency, dims) ==
    IF frequency = "day"
    THEN [raised |-> FALSE, size |-> IF "lev" \in dims THEN 5 ELSE 73]
    ELSE IF frequency = "mon"
    THEN [raised |-> FALSE, size |-> IF "lev" \in dims THEN 6 ELSE 120]
    ELSE [raised |-> TRUE, size |-> 0]

\* Lines 207-219: the size of the time chunks.
chunk_plan(frequency, dims) ==
    IF frequency = "day"
    THEN [raised |-> FALSE,
          size |-> IF "lev" \in dims \/ "ilev" \in dims THEN 5 ELSE 73]
    ELSE IF frequency = "mon"
    THEN [raised |-> FALSE,
          size |-> IF "lev" \in dims \/ "ilev" \in dims THEN 6 ELSE 120]
    ELSE [raised |-> TRUE, size |-> 0]

HasDuplicates(axis) ==
    \E i, j \in DOMAIN axis : i < j /\ axis[i] = axis[j]

\* The values of a duplicate-free set of times in rising order.
SortedAxis(S) ==
    [k \in 1..Cardinality(S) |->
        CHOOSE x \in S : Cardinality({y \in S : y < x}) = k - 1]

\* Mutant of merge: the variable is added to the dataset in place, before
\* the alignment that raises.
merge_in_place(ds, da) ==
    LET added == [ds EXCEPT !.data_vars = Append(ds.data_vars, da)]
    IN  IF ~ds.has_time \/ ds.time = da.axis
        THEN [raised |-> FALSE,
              ds |-> [added EXCEPT !.has_time = TRUE, !.time = da.axis]]
        ELSE IF HasDuplicates(ds.time) \/ HasDuplicates(da.axis)
        THEN [raised |-> TRUE, ds |-> added]
        ELSE [raised |-> FALSE,
              ds |-> [added EXCEPT
                         !.time = SortedAxis({ds.time[k] : k \in DOMAIN ds.time}
                                      \cup {da.axis[k] : k \in DOMAIN da.axis})]]

\* xr.merge([ds, ds_var]): an outer join on time.  A dataset without a time
\* axis takes that of the variable; equal axes need no alignment; axes that
\* differ are aligned on their union, which xarray refuses when one of them
\* holds a value twice.
merge(ds, da) ==
    IF ~ds.has_time \/ ds.time = da.axis
    THEN [raised |-> FALSE,
          ds |-> [ds EXCEPT !.has_time = TRUE, !.time = da.axis,
                            !.data_vars = Append(ds.data_vars, da)]]
    ELSE IF HasDuplicates(ds.time) \/ HasDuplicates(da.axis)
    THEN [raised |-> TRUE, ds |-> ds]
    ELSE [raised |-> FALSE,
          ds |-> [ds EXCEPT
                     !.time = SortedAxis({ds.time[k] : k \in DOMAIN ds.time}
                                  \cup {da.axis[k] : k \in DOMAIN da.axis}),
                     !.data_vars = Append(ds.data_vars, da)]]

\* Mutant of process_variable: the time bounds are loaded for monthly data
\* only.
process_variable_bounds_for_mon(tr, ds, dir_root, frequency, experiment, variable, output_map) ==
    LET files == FilesAt(tr, get_filepath_glob(dir_root, frequency, experiment,
                                               variable))
        plan == chunk_plan(frequency, files.dims)
    IN  IF \/ ~files.matched
           \/ (frequency = "mon" /\ ~files.has_bnds)
           \/ plan.raised
        THEN [raised |-> TRUE, ds |-> ds]
        ELSE merge(ds, [name |-> Get(output_map, variable, variable),
                        dims |-> files.dims,
                        chunk |-> plan.size,
                        axis |-> normalize_time(files.records, frequency)])

\* One turn of the loop over the variables (lines 187-222): open the files,
\* sort by time, load time_bnds, set the time axis, select and rename the
\* variable, chunk it, merge it.
process_variable(tr, ds, dir_root, frequency, experiment, variable, output_map) ==
    LET files == FilesAt(tr, get_filepath_glob(dir_root, frequency, experiment,
                                               variable))
        plan == chunk_plan(frequency, files.dims)
    IN  IF ~files.matched \/ ~files.has_bnds \/ plan.raised
        THEN [raised |-> TRUE, ds |-> ds]
        ELSE merge(ds, [name |-> Get(output_map, variable, variable),
                        dims |-> files.dims,
                        chunk |-> plan.size,
                        axis |-> normalize_time(files.records, frequency)])

\* ---------------------------------------------------------------- state

AllUnits == {<<f, e>> : f \in {"mon", "day", "yr"},
                        e \in {AllExperiments[n] : n \in DOMAIN AllExperiments}}

AllPaths == {StorePath(directory_root, u[2], u[1]) : u \in AllUnits}

VARIABLES
    config,            \* the settings file
    edits,             \* how many times the settings file was edited
    file,              \* the completion file on disk
    store,             \* store path -> "none" | "partial" | "complete"
    pc,                \* per process: where main() stands
    lastExit,          \* per process: how its last run ended
    settings,          \* per process: the settings main() read
    completion_state,  \* per process: the dict main() holds
    unit,              \* per process: index of the unit in UnitOrder
    off,               \* per process: entries json.dump has written
    loaded,            \* history: the dict load_completion_state returned
    snap,              \* history: the file and the stores at the run's start
    prev,              \* history: the file before the save in progress
    persisted,         \* history: keys some returned save wrote as true
    tree,              \* the input files: path glob -> what the files hold
    zarr,              \* store path -> the dataset the store holds
    ds,                \* per process: the dataset being built
    vi,                \* per process: index of the variable being merged
    tag_csv,           \* the tags of assets/variables_to_preprocess_tag.csv
    var_args,          \* the arguments get_variables_for_experiment is called with
    var_ret,           \* what the call returned
    var_disp,          \* the display names looked up so far for the list
    bvl_ret,           \* what build_variable_list returned
    VALID_NAMES,       \* add_cf_conventions: the standard names loaded
    ALIAS_MAP,         \* add_cf_conventions: alias -> standard name
    cf_loads,          \* the calls of load_cf_master so far
    cf_ret,            \* the last call of get_cf_standard_name
    nc_time,           \* fix_duplicate_times: the time values of the file
    nc_calls           \* the calls of fix_file so far, as what each did

vars == <<config, edits, file, store, pc, lastExit, settings,
          completion_state, unit, off, loaded, snap, prev, persisted,
          tree, zarr, ds, vi,
          tag_csv, var_args, var_ret, var_disp, bvl_ret,
          VALID_NAMES, ALIAS_MAP, cf_loads, cf_ret, nc_time, nc_calls>>

\* The variables of the driver, which the utilities leave alone.
mainVars == <<config, edits, file, store, pc, lastExit, settings,
              completion_state, unit, off, loaded, snap, prev, persisted,
              tree, zarr, ds, vi>>

\* The variables of the variable lists.
listsVars == <<tag_csv, var_args, var_ret, var_disp, bvl_ret>>

\* The variables of add_cf_conventions.py.
cfVars == <<VALID_NAMES, ALIAS_MAP, cf_loads, cf_ret>>

\* The variables of fix_duplicate_times.py.
ncVars == <<nc_time, nc_calls>>

\* The variables of the utilities, which the driver's steps leave alone.
fnVars == <<listsVars, cfVars, ncVars>>

NoSettings == [frequencies |-> <<>>, experiments |-> <<>>]

NoSnap == [file |-> AbsentFile, store |-> [p \in AllPaths |-> "none"]]

\* Before the first run: the settings file as given, no completion file, no
\* store, no driver running.
InitWith(s) ==
    /\ config = s
    /\ edits = 0
    /\ file = AbsentFile
    /\ store = [p \in AllPaths |-> "none"]
    /\ pc = [p \in Procs |-> "idle"]
    /\ lastExit = [p \in Procs |-> "none"]
    /\ settings = [p \in Procs |-> NoSettings]
    /\ completion_state = [p \in Procs |-> <<>>]
    /\ unit = [p \in Procs |-> 0]
    /\ off = [p \in Procs |-> 0]
    /\ loaded = [p \in Procs |-> <<>>]
    /\ snap = [p \in Procs |-> NoSnap]
    /\ prev = AbsentFile
    /\ persisted = {}
    /\ zarr = [p \in AllPaths |-> NoDataset]
    /\ ds = [p \in Procs |-> NoDataset]
    /\ vi = [p \in Procs |-> 0]

\* The settings the repository is first run with: both frequencies, every
\* experiment.  Other settings come with an edit of the file.
FirstSettings == [frequencies |-> <<"day", "mon">>, experiments |-> AllExperiments]

\* Under Spec the input files are left open: a build may succeed or fail.
NoTree == [g \in {} |-> NoFiles]

\* No call of get_variables_for_experiment or build_variable_list is
\* followed, and the tag file is empty.
NoReturn ==
    [state |-> "none", variables |-> <<>>, output_map |-> <<>>,
     previous |-> <<>>]

ListsIdle ==
    /\ tag_csv = <<>>
    /\ var_args = [experiment |-> "", frequency |-> ""]
    /\ var_ret = NoReturn
    /\ var_disp = <<>>
    /\ bvl_ret = <<>>

NoName == [called |-> FALSE, candidate |-> "", name |-> ""]

\* The module globals of add_cf_conventions.py as the import leaves them.
CfIdle ==
    /\ VALID_NAMES = {}
    /\ ALIAS_MAP = <<>>
    /\ cf_loads = 0
    /\ cf_ret = NoName

NcIdle ==
    /\ nc_time = <<>>
    /\ nc_calls = <<>>

\* The utilities are not run.
FnIdle == ListsIdle /\ CfIdle /\ NcIdle

Init == InitWith(FirstSettings) /\ tree = NoTree /\ FnIdle

Units(p) == UnitOrder(settings[p].frequencies, settings[p].experiments)

CurFrequency(p) == Units(p)[unit[p]][1]
CurExperiment(p) == Units(p)[unit[p]][2]
CurKey(p) == completion_key(CurExperiment(p), CurFrequency(p))
CurPath(p) == StorePath(directory_root, CurExperiment(p), CurFrequency(p))

\* The process ends: its locals are gone.
Exit(p, how) ==
    /\ pc' = [pc EXCEPT ![p] = "idle"]
    /\ lastExit' = [lastExit EXCEPT ![p] = how]
    /\ settings' = [settings EXCEPT ![p] = NoSettings]
    /\ completion_state' = [completion_state EXCEPT ![p] = <<>>]
    /\ unit' = [unit EXCEPT ![p] = 0]
    /\ off' = [off EXCEPT ![p] = 0]
    /\ loaded' = [loaded EXCEPT ![p] = <<>>]
    /\ snap' = [snap EXCEPT ![p] = NoSnap]
    /\ ds' = [ds EXCEPT ![p] = NoDataset]
    /\ vi' = [vi EXCEPT ![p] = 0]

\* The settings file is edited while no driver runs.
EditConfig ==
    /\ \A p \in Procs : pc[p] = "idle"
    /\ edits < MaxEdits
    /\ \E s \in Settings \ {config} : config' = s
    /\ edits' = edits + 1
    /\ UNCHANGED <<file, store, pc, lastExit, settings, completion_state,
                   unit, off, loaded, snap, prev, persisted>>
    /\ UNCHANGED <<tree, zarr, ds, vi>>
    /\ UNCHANGED fnVars

\* main(), up to the loops: read the settings, load the completion state.
MainLoad(p) ==
    /\ pc[p] = "idle"
    /\ LET res == load_completion_state(config.frequencies, config.experiments, file)
       IN  IF res.raised
           THEN /\ Exit(p, "error")
           ELSE /\ pc' = [pc EXCEPT ![p] = "loop"]
                /\ settings' = [settings EXCEPT ![p] = config]
                /\ completion_state' = [completion_state EXCEPT ![p] = res.value]
                /\ unit' = [unit EXCEPT ![p] = 1]
                /\ loaded' = [loaded EXCEPT ![p] = res.value]
                /\ snap' = [snap EXCEPT ![p] = [file |-> file, store |-> store]]
                /\ UNCHANGED <<lastExit, off, ds, vi>>
    /\ UNCHANGED <<config, edits, file, store, prev, persisted, tree, zarr>>
    /\ UNCHANGED fnVars

\* The unit is marked complete: continue with the next one.
SkipUnit(p) ==
    /\ pc[p] = "loop"
    /\ unit[p] <= Len(Units(p))
    /\ is_store_complete(completion_state[p], CurExperiment(p), CurFrequency(p))
    /\ unit' = [unit EXCEPT ![p] = unit[p] + 1]
    /\ UNCHANGED <<config, edits, file, store, pc, lastExit, settings,
                   completion_state, off, loaded, snap, prev, persisted>>
    /\ UNCHANGED <<tree, zarr, ds, vi>>
    /\ UNCHANGED fnVars

\* The variable list, the base dataset and the merge of every variable.
BuildUnit(p) ==
    /\ pc[p] = "loop"
    /\ unit[p] <= Len(Units(p))
    /\ ~is_store_complete(completion_state[p], CurExperiment(p), CurFrequency(p))
    /\ CurFrequency(p) \in ValidFrequencies
    /\ pc' = [pc EXCEPT ![p] = "write"]
    /\ UNCHANGED <<config, edits, file, store, lastExit, settings,
                   completion_state, unit, off, loaded, snap, prev, persisted>>
    /\ UNCHANGED <<tree, zarr, ds, vi>>
    /\ UNCHANGED fnVars

\* Mutant of BuildFails: the error of a build is logged and the loops go on
\* with the next unit.
BuildFailsSkipped(p) ==
    /\ pc[p] = "loop"
    /\ unit[p] <= Len(Units(p))
    /\ ~is_store_complete(completion_state[p], CurExperiment(p), CurFrequency(p))
    /\ unit' = [unit EXCEPT ![p] = unit[p] + 1]
    /\ UNCHANGED <<config, edits, file, store, pc, lastExit, settings,
                   completion_state, off, loaded, snap, prev, persisted>>
    /\ UNCHANGED <<tree, zarr, ds, vi>>
    /\ UNCHANGED fnVars

\* The build raises: an unknown frequency, or input files that are missing.
BuildFails(p) ==
    /\ pc[p] = "loop"
    /\ unit[p] <= Len(Units(p))
    /\ ~is_store_complete(completion_state[p], CurExperiment(p), CurFrequency(p))
    /\ Exit(p, "error")
    /\ UNCHANGED <<config, edits, file, store, prev, persisted, tree, zarr>>
    /\ UNCHANGED fnVars

\* ds.to_zarr(store=pathname_out, mode='w') starts: the old store is gone.
WriteBegin(p) ==
    /\ pc[p] = "write"
    /\ store' = [store EXCEPT ![CurPath(p)] = "partial"]
    /\ pc' = [pc EXCEPT ![p] = "writing"]
    /\ UNCHANGED <<config, edits, file, lastExit, settings, completion_state,
                   unit, off, loaded, snap, prev, persisted>>
    /\ zarr' = [zarr EXCEPT ![CurPath(p)] = NoDataset]
    /\ UNCHANGED <<tree, ds, vi>>
    /\ UNCHANGED fnVars

\* to_zarr returns.
WriteReturn(p) ==
    /\ pc[p] = "writing"
    /\ store' = [store EXCEPT ![CurPath(p)] = "complete"]
    /\ pc' = [pc EXCEPT ![p] = "mark"]
    /\ UNCHANGED <<config, edits, file, lastExit, settings, completion_state,
                   unit, off, loaded, snap, prev, persisted>>
    /\ zarr' = [zarr EXCEPT ![CurPath(p)] = ds[p]]
    /\ UNCHANGED <<tree, ds, vi>>
    /\ UNCHANGED fnVars

\* Mutant of WriteFails: the exception is swallowed and the unit is marked.
WriteFailsSwallowed(p) ==
    /\ pc[p] = "writing"
    /\ pc' = [pc EXCEPT ![p] = "mark"]
    /\ UNCHANGED <<config, edits, file, store, lastExit, settings,
                   completion_state, unit, off, loaded, snap, prev, persisted>>
    /\ UNCHANGED <<tree, zarr, ds, vi>>
    /\ UNCHANGED fnVars

\* Mutant of WriteFails: the mark is set and saved on the way out, as in a
\* finally clause.
WriteFailsMarked(p) ==
    /\ pc[p] = "writing"
    /\ file' = WholeFile(Put(completion_state[p], CurKey(p), TRUE))
    /\ Exit(p, "error")
    /\ UNCHANGED <<config, edits, store, prev, persisted, tree, zarr>>
    /\ UNCHANGED fnVars

\* to_zarr raises: the exception leaves main().
WriteFails(p) ==
    /\ pc[p] = "writing"
    /\ Exit(p, "error")
    /\ UNCHANGED <<config, edits, file, store, prev, persisted, tree, zarr>>
    /\ UNCHANGED fnVars

\* Mutant of MarkComplete: every key of the dict is set.
MarkCompleteEvery(p) ==
    /\ pc[p] = "mark"
    /\ completion_state' =
           [completion_state EXCEPT ![p] =
               [k \in DOMAIN completion_state[p] |->
                   <<completion_state[p][k][1], TRUE>>]]
    /\ pc' = [pc EXCEPT ![p] = "save"]
    /\ UNCHANGED <<config, edits, file, store, lastExit, settings,
                   unit, off, loaded, snap, prev, persisted>>
    /\ UNCHANGED <<tree, zarr, ds, vi>>
    /\ UNCHANGED fnVars

\* Mutant of MarkComplete: the dict is replaced by the one new entry.
MarkCompleteAlone(p) ==
    /\ pc[p] = "mark"
    /\ completion_state' = [completion_state EXCEPT ![p] = <<<<CurKey(p), TRUE>>>>]
    /\ pc' = [pc EXCEPT ![p] = "save"]
    /\ UNCHANGED <<config, edits, file, store, lastExit, settings,
                   unit, off, loaded, snap, prev, persisted>>
    /\ UNCHANGED <<tree, zarr, ds, vi>>
    /\ UNCHANGED fnVars

\* Mutant of MarkComplete: the flag is not set.
MarkCompleteForgotten(p) ==
    /\ pc[p] = "mark"
    /\ pc' = [pc EXCEPT ![p] = "save"]
    /\ UNCHANGED <<config, edits, file, store, lastExit, settings,
                   completion_state, unit, off, loaded, snap, prev, persisted>>
    /\ UNCHANGED <<tree, zarr, ds, vi>>
    /\ UNCHANGED fnVars

\* Mutant of MarkComplete: the flags of the other keys are reset.
MarkCompleteResets(p) ==
    /\ pc[p] = "mark"
    /\ completion_state' =
           [completion_state EXCEPT ![p] =
               [k \in DOMAIN Put(completion_state[p], CurKey(p), TRUE) |->
                   <<Put(completion_state[p], CurKey(p), TRUE)[k][1],
                     Put(completion_state[p], CurKey(p), TRUE)[k][1]
                         = CurKey(p)>>]]
    /\ pc' = [pc EXCEPT ![p] = "save"]
    /\ UNCHANGED <<config, edits, file, store, lastExit, settings,
                   unit, off, loaded, snap, prev, persisted>>
    /\ UNCHANGED <<tree, zarr, ds, vi>>
    /\ UNCHANGED fnVars

\* completion_state[completion_key(experiment, frequency)] = True
MarkComplete(p) ==
    /\ pc[p] = "mark"
    /\ completion_state' =
           [completion_state EXCEPT ![p] = Put(completion_state[p], CurKey(p), TRUE)]
    /\ pc' = [pc EXCEPT ![p] = "save"]
    /\ UNCHANGED <<config, edits, file, store, lastExit, settings,
                   unit, off, loaded, snap, prev, persisted>>
    /\ UNCHANGED <<tree, zarr, ds, vi>>
    /\ UNCHANGED fnVars

\* save_completion_state: open(path, 'w') truncates the file.
SaveOpen(p) ==
    /\ pc[p] = "save"
    /\ prev' = file
    /\ file' = TruncatedFile
    /\ off' = [off EXCEPT ![p] = 0]
    /\ pc' = [pc EXCEPT ![p] = "dump"]
    /\ UNCHANGED <<config, edits, store, lastExit, settings, completion_state,
                   unit, loaded, snap, persisted>>
    /\ UNCHANGED <<tree, zarr, ds, vi>>
    /\ UNCHANGED fnVars

\* json.dump: the next entry of the object reaches the file.
SaveWrite(p) ==
    /\ pc[p] = "dump"
    /\ off[p] < Len(completion_state[p])
    /\ file' = [file EXCEPT !.entries = Append(@, completion_state[p][off[p] + 1])]
    /\ off' = [off EXCEPT ![p] = off[p] + 1]
    /\ UNCHANGED <<config, edits, store, pc, lastExit, settings,
                   completion_state, unit, loaded, snap, prev, persisted>>
    /\ UNCHANGED <<tree, zarr, ds, vi>>
    /\ UNCHANGED fnVars

\* json.dump writes the closing brace, the file is closed, the save returns
\* and the loop goes on to the next unit.
SaveClose(p) ==
    /\ pc[p] = "dump"
    /\ off[p] = Len(completion_state[p])
    /\ file' = [file EXCEPT !.closed = TRUE]
    /\ prev' = AbsentFile
    /\ persisted' = persisted \cup
           {k \in Keys(completion_state[p]) : Get(completion_state[p], k, FALSE)}
    /\ off' = [off EXCEPT ![p] = 0]
    /\ unit' = [unit EXCEPT ![p] = unit[p] + 1]
    /\ pc' = [pc EXCEPT ![p] = "loop"]
    /\ UNCHANGED <<config, edits, store, lastExit, settings, completion_state,
                   loaded, snap>>
    /\ UNCHANGED <<tree, zarr, ds, vi>>
    /\ UNCHANGED fnVars

\* Both loops are exhausted: main() returns.
Finish(p) ==
    /\ pc[p] = "loop"
    /\ unit[p] > Len(Units(p))
    /\ Exit(p, "ok")
    /\ UNCHANGED <<config, edits, file, store, prev, persisted, tree, zarr>>
    /\ UNCHANGED fnVars

\* The process is killed, wherever it stands.
Crash(p) ==
    /\ pc[p] # "idle"
    /\ Exit(p, "killed")
    /\ UNCHANGED <<config, edits, file, store, prev, persisted, tree, zarr>>
    /\ UNCHANGED fnVars

Next ==
    \/ EditConfig
    \/ \E p \in Drivers :
        \/ MainLoad(p)
        \/ SkipUnit(p)
        \/ BuildUnit(p)
        \/ BuildFails(p)
        \/ WriteBegin(p)
        \/ WriteReturn(p)
        \/ WriteFails(p)
        \/ MarkComplete(p)
        \/ SaveOpen(p)
        \/ SaveWrite(p)
        \/ SaveClose(p)
        \/ Finish(p)
        \/ Crash(p)

Spec == Init /\ [][Next]_vars

\* ------------------------------------------------- resuming after a kill

\* Every step of a driver but its being killed.
Progress(p) ==
    \/ MainLoad(p)
    \/ SkipUnit(p)
    \/ BuildUnit(p)
    \/ WriteBegin(p)
    \/ WriteReturn(p)
    \/ MarkComplete(p)
    \/ SaveOpen(p)
    \/ SaveWrite(p)
    \/ SaveClose(p)
    \/ Finish(p)

\* The process is killed between two units: after the save of one has
\* returned and before to_zarr of the next has started.  The run that
\* follows a kill is not killed.
KillBetweenUnits(p) ==
    /\ pc[p] \in {"loop", "write"}
    /\ lastExit[p] # "killed"
    /\ Crash(p)

InitResume ==
    (\E s \in ValidSettings : InitWith(s)) /\ tree = NoTree /\ FnIdle

NextResume ==
    \E p \in Drivers :
        \/ Progress(p)
        \/ KillBetweenUnits(p)

\* The settings stay as they are, no build and no write fails, and a driver
\* that is not killed takes its next step; a driver that ended is run again.
SpecResume ==
    InitResume /\ [][NextResume]_vars /\ \A p \in Drivers : WF_vars(Progress(p))

\* --------------------------------------- the build of a unit, step by step

\* The records input files may hold: a time within a month and the bounds
\* of the month, as days of the year (Jan-15 in [Jan-01, Feb-01), Feb-14 in
\* [Feb-01, Mar-01), Mar-16 in [Mar-01, Apr-01)).
RecordValues ==
    {[time |-> 15, lo |-> 1, hi |-> 32],
     [time |-> 45, lo |-> 32, hi |-> 60],
     [time |-> 75, lo |-> 60, hi |-> 91]}

\* The records of a variable, in the order of the files: in any order, and
\* with records that come twice.
SeriesSet == UNION {[1..n -> RecordValues] : n \in 1..MaxRecords}

ExampleSeries ==
    <<[time |-> 15, lo |-> 1, hi |-> 32],
      [time |-> 45, lo |-> 32, hi |-> 60],
      [time |-> 75, lo |-> 60, hi |-> 91]>>

\* The settings of the runs that are followed variable by variable.
BuildExperiment == AllExperiments[1]

BuildSettings ==
    {[frequencies |-> f, experiments |-> <<BuildExperiment>>] :
        f \in {<<"day">>, <<"day", "mon">>, <<"mon", "yr">>}}

\* The variables the settings above lead to, and the globs of their files.
BuildSlots == {<<f, v>> : f \in ValidFrequencies, v \in {"T", "PS"}}

SlotGlob(sl) == get_filepath_glob(directory_root, sl[1], BuildExperiment, sl[2])

\* Files with all they should hold: T has levels, PS has none.
GoodFiles(variable, series) ==
    [matched |-> TRUE, has_bnds |-> TRUE,
     dims |-> IF variable = "T" THEN {"time", "lev", "lat", "lon"}
              ELSE {"time", "lat", "lon"},
     records |-> series]

\* Files that differ from the others: none, no time_bnds, interface levels,
\* fewer records, a record that comes twice.
OddFiles(variable) ==
    {NoFiles,
     [GoodFiles(variable, ExampleSeries) EXCEPT !.has_bnds = FALSE],
     [GoodFiles(variable, ExampleSeries) EXCEPT
         !.dims = {"time", "ilev", "lat", "lon"}],
     GoodFiles(variable, SubSeq(ExampleSeries, 2, 3)),
     GoodFiles(variable, <<ExampleSeries[1], ExampleSeries[1]>>)}

\* The input trees: every variable with the same records, whatever they are,
\* or every variable with the three records of the example but one.
Trees ==
    {[g \in {SlotGlob(sl) : sl \in BuildSlots} |->
         GoodFiles((CHOOSE sl \in BuildSlots : SlotGlob(sl) = g)[2], series)] :
        series \in SeriesSet}
    \cup UNION {
        {[g \in {SlotGlob(sl) : sl \in BuildSlots} |->
             IF g = SlotGlob(odd) THEN files
             ELSE GoodFiles((CHOOSE sl \in BuildSlots : SlotGlob(sl) = g)[2],
                            ExampleSeries)] :
            files \in OddFiles(odd[2])} :
        odd \in BuildSlots}

InitBuild ==
    (\E s \in BuildSettings : InitWith(s)) /\ tree \in Trees /\ FnIdle

Variables(p) ==
    get_variables_for_experiment(CurExperiment(p), CurFrequency(p), tag_csv)

\* Lines 179-185: the variable list and the base dataset.
BuildStart(p) ==
    /\ pc[p] = "loop"
    /\ unit[p] <= Len(Units(p))
    /\ ~is_store_complete(completion_state[p], CurExperiment(p), CurFrequency(p))
    /\ ~Variables(p).raised
    /\ LET base == set_ds_base(tree, directory_root, CurExperiment(p), CurFrequency(p))
       IN  /\ ~base.raised
           /\ ds' = [ds EXCEPT ![p] = base.ds]
    /\ vi' = [vi EXCEPT ![p] = 1]
    /\ pc' = [pc EXCEPT ![p] = IF Variables(p).variables = <<>>
                               THEN "write" ELSE "vars"]
    /\ UNCHANGED <<config, edits, file, store, lastExit, settings,
                   completion_state, unit, off, loaded, snap, prev, persisted,
                   tree, zarr>>
    /\ UNCHANGED fnVars

\* get_variables_for_experiment raises for a frequency it does not know;
\* set_ds_base raises when T has no files.
BuildStartFails(p) ==
    /\ pc[p] = "loop"
    /\ unit[p] <= Len(Units(p))
    /\ ~is_store_complete(completion_state[p], CurExperiment(p), CurFrequency(p))
    /\ IF Variables(p).raised
       THEN TRUE
       ELSE set_ds_base(tree, directory_root, CurExperiment(p),
                        CurFrequency(p)).raised
    /\ Exit(p, "error")
    /\ UNCHANGED <<config, edits, file, store, prev, persisted, tree, zarr>>
    /\ UNCHANGED fnVars

\* What the turn of the loop for the current variable gives.
Turn(p) ==
    process_variable(tree, ds[p], directory_root, CurFrequency(p),
                     CurExperiment(p), Variables(p).variables[vi[p]],
                     Variables(p).output_map)

\* Mutant of VariableFails: the variable is logged and left out, and the
\* loop goes on with the next one.
VariableFailsSkipped(p) ==
    /\ pc[p] = "vars"
    /\ Turn(p).raised
    /\ vi' = [vi EXCEPT ![p] = vi[p] + 1]
    /\ pc' = [pc EXCEPT ![p] = IF vi[p] = Len(Variables(p).variables)
                               THEN "write" ELSE "vars"]
    /\ UNCHANGED <<config, edits, file, store, lastExit, settings,
                   completion_state, unit, off, loaded, snap, prev, persisted,
                   tree, zarr, ds>>
    /\ UNCHANGED fnVars

\* A variable is merged; after the last one the store path is computed.
ProcessVariable(p) ==
    /\ pc[p] = "vars"
    /\ ~Turn(p).raised
    /\ ds' = [ds EXCEPT ![p] = Turn(p).ds]
    /\ vi' = [vi EXCEPT ![p] = vi[p] + 1]
    /\ pc' = [pc EXCEPT ![p] = IF vi[p] = Len(Variables(p).variables)
                               THEN "write" ELSE "vars"]
    /\ UNCHANGED <<config, edits, file, store, lastExit, settings,
                   completion_state, unit, off, loaded, snap, prev, persisted,
                   tree, zarr>>
    /\ UNCHANGED fnVars

\* No file matches the glob, the files have no time_bnds, or the merge
\* raises: the exception leaves main().
VariableFails(p) ==
    /\ pc[p] = "vars"
    /\ Turn(p).raised
    /\ Exit(p, "error")
    /\ UNCHANGED <<config, edits, file, store, prev, persisted, tree, zarr>>
    /\ UNCHANGED fnVars

NextBuild ==
    \E p \in Drivers :
        \/ MainLoad(p)
        \/ SkipUnit(p)
        \/ BuildStart(p)
        \/ BuildStartFails(p)
        \/ ProcessVariable(p)
        \/ VariableFails(p)
        \/ WriteBegin(p)
        \/ WriteReturn(p)
        \/ WriteFails(p)
        \/ MarkComplete(p)
        \/ SaveOpen(p)
        \/ SaveWrite(p)
        \/ SaveClose(p)
        \/ Finish(p)

\* Runs over given input files, none of them killed: the build of a unit is
\* followed variable by variable.
SpecBuild == InitBuild /\ [][NextBuild]_vars

\* -------------------------------------------------------------- properties

\* The completion key and the store path of every unit.
KeyOf == [u \in AllUnits |-> completion_key(u[2], u[1])]
PathOf == [u \in AllUnits |-> StorePath(directory_root, u[2], u[1])]

UnitKey(u) == KeyOf[u]
UnitPath(u) == PathOf[u]

\* The keys a dict holds as true.
Marked(d) == {d[k][1] : k \in {j \in DOMAIN d : d[j][2]}}

\* The keys a fresh process finds true in the completion file.
FileMarks(f) ==
    IF f.exists /\ ~json_load(f).raised THEN Marked(json_load(f).value) ELSE {}

\* The keys of the units a process was configured with.
ConfiguredKeys(p) == {UnitKey(Units(p)[k]) : k \in DOMAIN Units(p)}

\* The process has built its current unit and not yet finished saving it.
Working(p) == pc[p] \in {"write", "writing", "mark", "save", "dump"}

\* C1: every unit whose key is true in the completion file, in the text on
\* disk whether or not it is written to its end, has a store whose write
\* returned; this holds in every state, after any crashes and re-runs.
C1_MarkedImpliesWritten ==
    LET marked == Marked(file.entries)
    IN  /\ marked \subseteq {UnitKey(u) : u \in AllUnits}
        /\ \A u \in AllUnits :
               UnitKey(u) \in marked => store[UnitPath(u)] = "complete"

\* A re-run after a kill is writing a store while the file marks others.
C1_Witness ==
    /\ lastExit[1] = "killed"
    /\ pc[1] = "writing"
    /\ store[CurPath(1)] = "partial"
    /\ FileMarks(file) # {}

\* C2: a run builds, writes and saves no unit that the state it loaded marks
\* complete, the stores of those units stay as they were at the start, and
\* a run that loaded every configured unit as complete changes neither the
\* completion file nor any store.
C2_Idempotent ==
    \A p \in Procs :
        pc[p] # "idle" =>
            LET marked == Marked(loaded[p])
            IN  /\ Working(p) => CurKey(p) \notin marked
                /\ \A u \in AllUnits :
                       UnitKey(u) \in marked =>
                           store[UnitPath(u)] = snap[p].store[UnitPath(u)]
                /\ ConfiguredKeys(p) \subseteq marked =>
                       /\ file = snap[p].file
                       /\ store = snap[p].store
                       /\ pc[p] = "loop"

\* A second run, after one that ended normally, has gone through all of its
\* units and found each complete.
C2_Witness ==
    /\ lastExit[1] = "ok"
    /\ pc[1] = "loop"
    /\ Len(Units(1)) >= 2
    /\ unit[1] > Len(Units(1))
    /\ ConfiguredKeys(1) \subseteq Marked(loaded[1])

\* The keys of the first n units of a process's iteration order.
FirstKeys(p, n) == {UnitKey(Units(p)[k]) : k \in 1..n}

\* C4: in a run that loaded no unit as complete, whatever the point at which
\* the process is killed, the completion file a fresh process reads marks
\* exactly the units that were completed before that point, which are the
\* first ones of the iteration order.
C4_KillLeavesFirstN ==
    \A p \in Procs :
        (pc[p] # "idle" /\ Marked(loaded[p]) = {}) =>
            FileMarks(file) = FirstKeys(p, unit[p] - 1)

\* C5 as stated: no run has built, and now is to write, a unit whose store
\* write has already returned.
C5_WrittenStoreNeverRebuilt ==
    \A p \in Procs :
        pc[p] = "write" => store[CurPath(p)] # "complete"

\* C5, amended: no run builds, writes or saves again a unit whose completion
\* mark was written by a save that returned.
C5_PersistedNeverRebuilt ==
    \A p \in Procs :
        Working(p) => CurKey(p) \notin persisted

\* A re-run after a kill has skipped the persisted units and built another.
C5_Witness ==
    /\ lastExit[1] = "killed"
    /\ pc[1] = "write"
    /\ unit[1] > 1
    /\ FirstKeys(1, unit[1] - 1) \subseteq persisted

\* C6: a save is an atomic replace: a kill at any point of a save leaves the
\* completion file as the whole previous content or the whole new content,
\* never as text that does not parse, an empty file, or fewer entries.
C6_AtomicReplace ==
    \A p \in Procs :
        pc[p] = "dump" =>
            \/ file = prev
            \/ file = WholeFile(completion_state[p])

\* C7: a process that reads the completion file at any moment finds either
\* no file or text that parses, whose content a save of the driver wrote.
C7_ReaderSeesSnapshot ==
    file.exists =>
        /\ ~json_load(file).raised
        /\ Marked(json_load(file).value) \subseteq persisted

\* The save after the build of the unit before the current one has returned
\* and nothing has happened since.
SaveReturned(p) ==
    /\ pc[p] = "loop"
    /\ unit[p] > 1
    /\ UnitKey(Units(p)[unit[p] - 1]) \notin Marked(loaded[p])

\* C8: once the save after a unit's mark has returned, a fresh process,
\* whatever its settings, loads that unit as complete, and with it every unit
\* that was complete before: in the file the run started from, in the state
\* it loaded, and among the units it built earlier.
C8_Durable ==
    \A p \in Procs :
        SaveReturned(p) =>
            \A s \in Settings :
                LET fresh == load_completion_state(s.frequencies, s.experiments, file)
                IN  /\ ~fresh.raised
                    /\ UnitKey(Units(p)[unit[p] - 1]) \in Marked(fresh.value)
                    /\ FileMarks(snap[p].file) \subseteq Marked(fresh.value)
                    /\ Marked(loaded[p]) \subseteq Marked(fresh.value)
                    /\ FirstKeys(p, unit[p] - 1) \subseteq Marked(fresh.value)

\* A save has just returned in a run that loaded other units as complete.
C8_Witness ==
    /\ SaveReturned(1)
    /\ Marked(loaded[1]) # {}
    /\ Marked(loaded[1]) \ ConfiguredKeys(1) # {}

\* C9: the state a run loaded has a key for every configured unit, false
\* unless the file held the key, and holds every entry of the file with the
\* file's value; the entries of the file, those of units outside the
\* settings included, are in the dict at every later point of the run and in
\* the file after every later save.
C9_LoadOverlay ==
    \A p \in Procs :
        pc[p] # "idle" =>
            LET on_disk == snap[p].file.entries
                disk_keys == Keys(on_disk)
                keys == Keys(loaded[p])
            IN  /\ ConfiguredKeys(p) \subseteq keys
                /\ keys = ConfiguredKeys(p) \cup disk_keys
                /\ \A k \in DOMAIN loaded[p] :
                       IF loaded[p][k][1] \in disk_keys
                       THEN loaded[p][k][2] = Get(on_disk, loaded[p][k][1], FALSE)
                       ELSE ~loaded[p][k][2]
                /\ disk_keys \subseteq Keys(completion_state[p])
                /\ ~json_load(file).raised =>
                       /\ disk_keys \subseteq Keys(file.entries)
                       /\ Marked(on_disk) \subseteq Marked(file.entries)

\* A run whose file held a unit outside its settings has saved since.
C9_Witness ==
    /\ pc[1] = "loop"
    /\ unit[1] > 1
    /\ file # snap[1].file
    /\ ~json_load(file).raised
    /\ Marked(snap[1].file.entries) \ ConfiguredKeys(1) # {}

\* C10: with no completion file, loading does not raise, whatever the
\* settings, and a run that started without the file holds what it would
\* hold had the file been an empty object: the configured keys, all false.
C10_MissingFileIsEmpty ==
    /\ ~file.exists =>
           \A s \in Settings :
               ~load_completion_state(s.frequencies, s.experiments, file).raised
    /\ \A p \in Procs :
           (pc[p] # "idle" /\ ~snap[p].file.exists) =>
               /\ Keys(loaded[p]) = ConfiguredKeys(p)
               /\ Marked(loaded[p]) = {}
               /\ loaded[p] = load_completion_state(settings[p].frequencies,
                                                    settings[p].experiments,
                                                    WholeFile(<<>>)).value

\* A run that started without the file is at its second unit.
C10_Witness ==
    /\ pc[1] = "write"
    /\ unit[1] = 2
    /\ ~snap[1].file.exists
    /\ Len(loaded[1]) >= 2

\* The keys of the units of the settings file.
ConfigKeys ==
    {UnitKey(UnitOrder(config.frequencies, config.experiments)[k]) :
        k \in DOMAIN UnitOrder(config.frequencies, config.experiments)}

\* C3: when a driver was killed between two units, the run that follows
\* leaves the stores of the units the file marks as they are, builds first
\* the unit that comes after the marked ones, and, no run after it being
\* killed and no build failing, the file comes to mark every configured unit.
C3_Resumable ==
    /\ [][\A p \in Drivers :
             (lastExit[p] = "killed" /\ pc[p] # "idle") =>
                 \A u \in AllUnits :
                     UnitKey(u) \in FileMarks(snap[p].file) =>
                         store'[UnitPath(u)] = store[UnitPath(u)]]_vars
    /\ [](\A p \in Drivers :
             (lastExit[p] = "killed" /\ pc[p] = "write"
                  /\ completion_state[p] = loaded[p]) =>
                 FirstKeys(p, unit[p] - 1) = FileMarks(snap[p].file))
    /\ \A p \in Drivers :
           (lastExit[p] = "killed" /\ pc[p] = "idle")
               ~> (ConfigKeys \subseteq FileMarks(file))

\* The run after a kill has skipped the units marked before the kill and
\* built the next one, with more units to come.
C3_Witness ==
    /\ lastExit[1] = "killed"
    /\ pc[1] = "write"
    /\ unit[1] = 2
    /\ Len(Units(1)) >= 3
    /\ completion_state[1] = loaded[1]
    /\ FileMarks(file) = FirstKeys(1, 1)

\* C11: a completion file that exists and does not parse makes loading
\* raise, whatever the settings, and no run goes past loading with it: every
\* run that is at a unit, building, writing or saving started from no file
\* or from a file written to its end, so that a run that found unreadable
\* text built no unit, wrote no store and did not rewrite the file.
C11_UnreadableFileIsFatal ==
    /\ (file.exists /\ ~file.closed) =>
           \A s \in Settings :
               load_completion_state(s.frequencies, s.experiments, file).raised
    /\ \A p \in Procs :
           pc[p] # "idle" => (snap[p].file.exists => snap[p].file.closed)

\* A kill during a save left text that does not parse, and the run started
\* after it has ended with the error of loading, the text still on disk.
C11_Witness ==
    /\ file.exists
    /\ ~file.closed
    /\ pc[1] = "idle"
    /\ lastExit[1] = "error"
    /\ \E path \in AllPaths : store[path] = "complete"

\* C12: a run whose frequencies hold a value the code does not know, at
\* whatever place of the list, has written no store and has left the
\* completion file as it found it.
C12_UnknownFrequencyMutatesNothing ==
    \A p \in Procs :
        (/\ pc[p] # "idle"
         /\ \E k \in DOMAIN settings[p].frequencies :
                settings[p].frequencies[k] \notin ValidFrequencies) =>
            /\ store = snap[p].store
            /\ file = snap[p].file

\* The loops of main() have ended: what is left is the last log line and
\* the return, with exit status 0.
LoopsEnded(p) == pc[p] = "loop" /\ unit[p] > Len(Units(p))

\* C15: a run reaches the end of main() only with every configured unit
\* marked complete, in the dict it holds and in the completion file, and
\* with the store of every configured unit written to its end; so no run
\* exits with status 0 after a unit that was not complete failed or was
\* left unbuilt.
C15_SuccessMeansAllComplete ==
    \A p \in Procs :
        LoopsEnded(p) =>
            /\ ConfiguredKeys(p) \subseteq Marked(completion_state[p])
            /\ ConfiguredKeys(p) \subseteq FileMarks(file)
            /\ \A k \in DOMAIN Units(p) :
                   store[UnitPath(Units(p)[k])] = "complete"

\* A run that follows one ended by an error has come to the end of its
\* loops, having built a unit itself.
C15_Witness ==
    /\ LoopsEnded(1)
    /\ lastExit[1] = "error"
    /\ Len(Units(1)) >= 2
    /\ ~(ConfiguredKeys(1) \subseteq Marked(loaded[1]))

\* C20: the units are visited frequency by frequency in the order of the
\* settings, and within a frequency experiment by experiment: while a run is
\* at a unit, every unit of an earlier frequency, and every unit of the same
\* frequency and an earlier experiment, is marked in the dict the run holds
\* and has its store written to its end, having been found complete at
\* loading (and so skipped) or marked by a save of the driver that returned.
C20_UnitsInConfiguredOrder ==
    \A p \in Procs :
        (pc[p] # "idle" /\ unit[p] <= Len(Units(p))) =>
            LET F == settings[p].frequencies
                E == settings[p].experiments
                a == IndexOf(F, CurFrequency(p))
                b == IndexOf(E, CurExperiment(p))
                marked == Marked(completion_state[p])
                skipped == Marked(loaded[p])
            IN  \A c \in DOMAIN F : \A d \in DOMAIN E :
                    (c < a \/ (c = a /\ d < b)) =>
                        /\ KeyOf[<<F[c], E[d]>>] \in marked
                        /\ KeyOf[<<F[c], E[d]>>] \in skipped \cup persisted
                        /\ store[PathOf[<<F[c], E[d]>>]] = "complete"

\* A run is about to write the first unit of the second frequency, having
\* skipped the first unit of the first frequency and built the second.
C20_Witness ==
    /\ pc[1] = "write"
    /\ unit[1] = 3
    /\ Len(settings[1].frequencies) = 2
    /\ Len(settings[1].experiments) = 2
    /\ CurFrequency(1) = settings[1].frequencies[2]
    /\ CurExperiment(1) = settings[1].experiments[1]
    /\ Marked(loaded[1]) = FirstKeys(1, 1)
    /\ FirstKeys(1, 2) \subseteq Marked(completion_state[1])

\* A unit whose input lacks something: a variable of its list has no file
\* that matches its glob, or files without the field time_bnds.
MissingData(tr, u) ==
    LET list == get_variables_for_experiment(u[2], u[1], tag_csv)
    IN  /\ ~list.raised
        /\ \E k \in DOMAIN list.variables :
               LET files == FilesAt(tr, get_filepath_glob(directory_root, u[1],
                                            u[2], list.variables[k]))
               IN  ~files.matched \/ ~files.has_bnds

\* C13: a unit whose input lacks files or time bounds is never written and
\* never marked: its store and its key in the completion file stay as they
\* were, and a run that comes to it gets no further than the merge of its
\* variables: it writes nothing for it and visits no unit after it.
C13_MissingDataIsFatal ==
    /\ \A u \in AllUnits :
           MissingData(tree, u) =>
               /\ store[PathOf[u]] = "none"
               /\ zarr[PathOf[u]] = NoDataset
               /\ KeyOf[u] \notin Marked(file.entries)
    /\ \A p \in Procs :
           pc[p] # "idle" =>
               \A k \in DOMAIN Units(p) :
                   MissingData(tree, Units(p)[k]) =>
                       /\ unit[p] <= k
                       /\ unit[p] = k => pc[p] \in {"loop", "vars"}
                       /\ KeyOf[Units(p)[k]] \notin Marked(completion_state[p])

\* The first unit was written and marked; the second one lacks input, and
\* the run ended with the error at it, its store not written.
C13_Witness ==
    /\ config.frequencies = <<"day", "mon">>
    /\ pc[1] = "idle"
    /\ lastExit[1] = "error"
    /\ MissingData(tree, <<"mon", BuildExperiment>>)
    /\ store[PathOf[<<"mon", BuildExperiment>>]] = "none"
    /\ store[PathOf[<<"day", BuildExperiment>>]] = "complete"
    /\ FileMarks(file) = {KeyOf[<<"day", BuildExperiment>>]}

\* C14: a unit whose store is written in part only, which is what a write
\* that raised leaves, is marked neither in the completion file nor in the
\* dict of any run; the run that comes to it next does not skip it, and
\* writes it only with every variable of its list merged anew.
C14_FailedWriteLeavesUnitPending ==
    /\ \A u \in AllUnits :
           store[PathOf[u]] = "partial" =>
               /\ KeyOf[u] \notin Marked(file.entries)
               /\ \A p \in Procs : KeyOf[u] \notin Marked(completion_state[p])
    /\ \A p \in Procs :
           (pc[p] # "idle" /\ unit[p] <= Len(Units(p))
                /\ store[CurPath(p)] = "partial") =>
               /\ pc[p] \in {"loop", "vars", "write", "writing"}
               /\ ~is_store_complete(completion_state[p], CurExperiment(p),
                                     CurFrequency(p))
               /\ pc[p] \in {"write", "writing"} =>
                      [k \in DOMAIN ds[p].data_vars |-> ds[p].data_vars[k].name]
                          = Variables(p).variables

\* The run after a write that raised has merged every variable of the unit
\* again and is about to write over the partial store.
C14_Witness ==
    /\ lastExit[1] = "error"
    /\ pc[1] = "write"
    /\ store[CurPath(1)] = "partial"
    /\ Len(ds[1].data_vars) = 2
    /\ CurKey(1) \notin FileMarks(file)

\* The process is building, writing or saving its current unit: ds is the
\* dataset of that unit.
Building(p) == pc[p] = "vars" \/ Working(p)

\* The table of the time chunk sizes.
PlannedChunk(frequency, dims) ==
    LET vertical == "lev" \in dims \/ "ilev" \in dims
    IN  CASE frequency = "day" /\ vertical -> 5
          [] frequency = "day" /\ ~vertical -> 73
          [] frequency = "mon" /\ vertical -> 6
          [] frequency = "mon" /\ ~vertical -> 120

\* C16: every variable, in the dataset being built and in every store, has
\* the time chunk size its frequency and its having a vertical dimension
\* (lev or ilev) give: 5 and 73 for daily data, 6 and 120 for monthly data;
\* for another frequency the plan raises, no variable is merged and no
\* store is written.
C16_ChunkPlan ==
    /\ \A p \in Procs :
           Building(p) =>
               /\ CurFrequency(p) \in {"day", "mon"}
               /\ \A k \in DOMAIN ds[p].data_vars :
                      ds[p].data_vars[k].chunk =
                          PlannedChunk(CurFrequency(p), ds[p].data_vars[k].dims)
    /\ \A u \in AllUnits :
           IF u[1] \in {"day", "mon"}
           THEN \A k \in DOMAIN zarr[PathOf[u]].data_vars :
                    zarr[PathOf[u]].data_vars[k].chunk =
                        PlannedChunk(u[1], zarr[PathOf[u]].data_vars[k].dims)
           ELSE /\ zarr[PathOf[u]] = NoDataset
                /\ store[PathOf[u]] = "none"
                /\ \A dims \in SUBSET {"time", "lev", "ilev"} :
                       chunk_plan(u[1], dims).raised

\* Both stores are written: the daily one with chunks of 5 and 73, the
\* monthly one with a variable on interface levels in chunks of 6 and a
\* variable without levels in chunks of 120.
C16_Witness ==
    LET day == zarr[PathOf[<<"day", BuildExperiment>>]].data_vars
        mon == zarr[PathOf[<<"mon", BuildExperiment>>]].data_vars
    IN  /\ {day[k].chunk : k \in DOMAIN day} = {5, 73}
        /\ {mon[k].chunk : k \in DOMAIN mon} = {6, 120}
        /\ \E k \in DOMAIN mon : "ilev" \in mon[k].dims /\ mon[k].chunk = 6

\* The time axis the records of a variable are to have: the records put in
\* an order of rising time, and of each the lower bound of its interval for
\* monthly data, its own time for daily data.
IsNormalized(axis, records, frequency) ==
    /\ Len(axis) = Len(records)
    /\ \E perm \in [DOMAIN records -> DOMAIN records] :
           /\ \A i, j \in DOMAIN records : i # j => perm[i] # perm[j]
           /\ \A i, j \in DOMAIN records :
                  i < j => records[perm[i]].time <= records[perm[j]].time
           /\ \A k \in DOMAIN records :
                  axis[k] = IF frequency = "mon" THEN records[perm[k]].lo
                            ELSE records[perm[k]].time

\* C17: every variable merged into a dataset or held by a store has its
\* records in the order of their times; for a monthly unit its time axis is,
\* record by record, the lower bound of the record's interval, so that the
\* records of Jan-15, Feb-14 and Mar-16 get the times Jan-01, Feb-01 and
\* Mar-01; for a daily unit it is the times of the records themselves.
C17_TimeNormalization ==
    /\ \A p \in Procs :
           Building(p) =>
               \A k \in DOMAIN ds[p].data_vars :
                   LET da == ds[p].data_vars[k]
                       records == FilesAt(tree,
                                      get_filepath_glob(directory_root,
                                          CurFrequency(p), CurExperiment(p),
                                          da.name)).records
                   IN  /\ IsNormalized(da.axis, records, CurFrequency(p))
                       /\ records = ExampleSeries =>
                              da.axis = IF CurFrequency(p) = "mon"
                                        THEN <<1, 32, 60>>
                                        ELSE <<15, 45, 75>>
    /\ \A u \in AllUnits :
           \A k \in DOMAIN zarr[PathOf[u]].data_vars :
               LET da == zarr[PathOf[u]].data_vars[k]
                   records == FilesAt(tree,
                                  get_filepath_glob(directory_root, u[1], u[2],
                                                    da.name)).records
               IN  IsNormalized(da.axis, records, u[1])

\* The files hold the three records with that of February first; the daily
\* store has them by their times and the monthly store by the first days of
\* the months.
C17_Witness ==
    LET day == zarr[PathOf[<<"day", BuildExperiment>>]].data_vars
        mon == zarr[PathOf[<<"mon", BuildExperiment>>]].data_vars
    IN  /\ \A g \in DOMAIN tree :
               tree[g].records =
                   <<ExampleSeries[2], ExampleSeries[1], ExampleSeries[3]>>
        /\ Len(day) = 2
        /\ Len(mon) = 2
        /\ \A k \in DOMAIN day : day[k].axis = <<15, 45, 75>>
        /\ \A k \in DOMAIN mon : mon[k].axis = <<1, 32, 60>>

\* C18: no dataset handed to the merge, built by it or written to a store
\* holds a time twice: of two records with the same time the build keeps
\* one, or it ends with an error.
C18_NoDuplicateTimes ==
    /\ \A p \in Procs :
           /\ ~HasDuplicates(ds[p].time)
           /\ \A k \in DOMAIN ds[p].data_vars :
                  ~HasDuplicates(ds[p].data_vars[k].axis)
    /\ \A path \in AllPaths :
           /\ ~HasDuplicates(zarr[path].time)
           /\ \A k \in DOMAIN zarr[path].data_vars :
                  ~HasDuplicates(zarr[path].data_vars[k].axis)

\* The settings of the end-to-end example: one experiment, daily data.
EndToEndSettings == [frequencies |-> <<"day">>, experiments |-> <<"exp1">>]

DictBeforeMark(p) ==
    IF file = snap[p].file THEN loaded[p] ELSE file.entries

\* C21: while a run builds and writes a unit, the completion file is as the
\* run found it or as its last save left it, and a fresh process loads from
\* it the unit as not complete and every unit the run holds as complete as
\* complete, which is what a kill at that point leaves; the stores that
\* differ from those the run started with are those of the units the run
\* has come to, and only that of the current unit is written in part; and
\* the mark changes the value of the key of the unit and nothing else.
C21_BuildTouchesOnlyItsUnit ==
    \A p \in Procs :
        /\ pc[p] \in {"write", "writing", "mark"} =>
               LET fresh == load_completion_state(settings[p].frequencies,
                                                  settings[p].experiments, file)
               IN  /\ file = IF completion_state[p] = loaded[p]
                             THEN snap[p].file
                             ELSE WholeFile(completion_state[p])
                   /\ ~fresh.raised
                   /\ CurKey(p) \notin Marked(fresh.value)
                   /\ Marked(completion_state[p]) \subseteq Marked(fresh.value)
        /\ Working(p) =>
               \A u \in AllUnits :
                   store[PathOf[u]] # snap[p].store[PathOf[u]] =>
                       /\ KeyOf[u] \in FirstKeys(p, unit[p])
                       /\ KeyOf[u] \notin Marked(loaded[p])
                       /\ store[PathOf[u]] = "partial" => KeyOf[u] = CurKey(p)
        /\ pc[p] = "save" =>
               LET before == DictBeforeMark(p)
               IN  /\ Len(completion_state[p]) = Len(before)
                   /\ \A k \in DOMAIN before :
                          completion_state[p][k] =
                              IF before[k][1] = CurKey(p)
                              THEN <<CurKey(p), TRUE>>
                              ELSE before[k]

\* The run after a kill during the write of a unit has skipped the units
\* before it, which it loaded as complete, and has built the unit again.
C21_Witness ==
    /\ lastExit[1] = "killed"
    /\ pc[1] = "write"
    /\ unit[1] > 1
    /\ store[CurPath(1)] = "partial"
    /\ Marked(loaded[1]) = FirstKeys(1, unit[1] - 1)
    /\ completion_state[1] = loaded[1]

\* The files of the variable a run is at.
CurFiles(p) ==
    FilesAt(tree, get_filepath_glob(directory_root, CurFrequency(p),
                                    CurExperiment(p),
                                    Variables(p).variables[vi[p]]))

LacksBounds(tr, u) ==
    LET list == get_variables_for_experiment(u[2], u[1], tag_csv)
        files(k) == FilesAt(tr, get_filepath_glob(directory_root, u[1], u[2],
                                                  list.variables[k]))
    IN  /\ ~list.raised
        /\ \A k \in DOMAIN list.variables : files(k).matched
        /\ \E k \in DOMAIN list.variables : ~files(k).has_bnds

\* C26: the time bounds are loaded for every variable whatever the
\* frequency: the turn of a daily variable whose files hold no time_bnds
\* raises, and a daily unit with such a variable is never written and never
\* marked, and the run that comes to it ends at it.
C26_DailyNeedsTimeBounds ==
    /\ \A p \in Procs :
           (/\ pc[p] = "vars"
            /\ CurFrequency(p) = "day"
            /\ CurFiles(p).matched
            /\ ~CurFiles(p).has_bnds) => Turn(p).raised
    /\ \A u \in AllUnits :
           (u[1] = "day" /\ LacksBounds(tree, u)) =>
               /\ store[PathOf[u]] = "none"
               /\ zarr[PathOf[u]] = NoDataset
               /\ KeyOf[u] \notin Marked(file.entries)
               /\ \A p \in Procs :
                      pc[p] # "idle" =>
                          \A k \in DOMAIN Units(p) :
                              Units(p)[k] = u =>
                                  /\ unit[p] <= k
                                  /\ unit[p] = k => pc[p] \in {"loop", "vars"}
                                  /\ KeyOf[u] \notin Marked(completion_state[p])

\* The daily unit has all its files, one variable's without time_bnds: the
\* run ended with the error and wrote and marked nothing.
C26_Witness ==
    /\ config.frequencies = <<"day", "mon">>
    /\ pc[1] = "idle"
    /\ lastExit[1] = "error"
    /\ LacksBounds(tree, <<"day", BuildExperiment>>)
    /\ store[PathOf[<<"day", BuildExperiment>>]] = "none"
    /\ FileMarks(file) = {}

\* C27: within a run no flag goes from true to false and no key is removed:
\* the dict of the run holds every key and every true flag of the dict
\* loaded at startup, a save writes the entries of that dict, which hold the
\* keys and the true flags of the file it replaces, and the file a save has
\* left holds every key and every true flag that was loaded.
C27_CompletionStateMonotonic ==
    \A p \in Procs :
        pc[p] # "idle" =>
            /\ Keys(loaded[p]) \subseteq Keys(completion_state[p])
            /\ Marked(loaded[p]) \subseteq Marked(completion_state[p])
            /\ pc[p] = "dump" =>
                   /\ file.entries = SubSeq(completion_state[p], 1, off[p])
                   /\ Keys(prev.entries) \subseteq Keys(completion_state[p])
                   /\ Marked(prev.entries) \subseteq Marked(completion_state[p])
            /\ (pc[p] # "dump" /\ file # snap[p].file) =>
                   /\ file.closed
                   /\ Keys(loaded[p]) \subseteq Keys(file.entries)
                   /\ Marked(loaded[p]) \subseteq Marked(file.entries)
                   /\ Marked(file.entries) \subseteq Marked(completion_state[p])

\* A run that loaded a true flag is in its second save, the file of its
\* first save being replaced.
C27_Witness ==
    /\ pc[1] = "dump"
    /\ off[1] = Len(completion_state[1])
    /\ Marked(loaded[1]) # {}
    /\ prev # snap[1].file
    /\ Marked(prev.entries) # Marked(completion_state[1])
    /\ Marked(loaded[1]) # Marked(prev.entries)

\* ----------------------------------------------------- two drivers at once
\* Two processes run main() on the same settings, completion file and
\* stores.  Of their interleavings those are followed in which a save runs
\* from its open to its close without a step of the other driver; a driver
\* that has ended is started again.

TwoSettings ==
    {[frequencies |-> <<"day", "mon">>, experiments |-> <<Experiment(1)>>]}

InitTwo == (\E s \in TwoSettings : InitWith(s)) /\ tree = NoTree /\ FnIdle

\* save_completion_state from open to close, and the loop's step to the
\* next unit.
Save(p) ==
    /\ pc[p] = "save"
    /\ file' = WholeFile(completion_state[p])
    /\ persisted' = persisted \cup Marked(completion_state[p])
    /\ unit' = [unit EXCEPT ![p] = unit[p] + 1]
    /\ pc' = [pc EXCEPT ![p] = "loop"]
    /\ UNCHANGED <<config, edits, store, lastExit, settings, completion_state,
                   off, loaded, snap, prev>>
    /\ UNCHANGED <<tree, zarr, ds, vi>>
    /\ UNCHANGED fnVars

NextTwo ==
    \E p \in Procs :
        \/ MainLoad(p)
        \/ SkipUnit(p)
        \/ BuildUnit(p)
        \/ WriteBegin(p)
        \/ WriteReturn(p)
        \/ MarkComplete(p)
        \/ Save(p)
        \/ Finish(p)

SpecTwo == InitTwo /\ [][NextTwo]_vars

\* C28: a key that a returned save of either driver wrote as true is true
\* in the completion file after every later save of the other driver.
C28_MarksSurviveOtherSaves == persisted \subseteq Marked(file.entries)

\* ------------------------------------------------- the variable lists
\* build_variable_list and get_variables_for_experiment run on the asset
\* files: the vanilla lists of VanillaRows and a tag file of up to MaxTags
\* lines.

\* The dict of build_variable_list, as pairs of a name and its frequencies:
\* the names of the day list, those of the month list, then every prefix
\* with every suffix around every tag.
build_variable_list(tags) ==
    LET day == VanillaRows("day")
        month == VanillaRows("mon")
        frequencies(name) ==
            (IF \E k \in DOMAIN day : day[k][1] = name THEN {"day"} ELSE {})
                \cup (IF \E k \in DOMAIN month : month[k][1] = name
                      THEN {"month"} ELSE {})
        names == [n \in 1..(Len(tags_pref) * Len(tags_suff) * Len(tags)) |->
                     LET prefix == tags_pref[((n - 1) \div
                                       (Len(tags_suff) * Len(tags))) + 1]
                         suffix == tags_suff[(((n - 1) \div Len(tags))
                                                  % Len(tags_suff)) + 1]
                         tag == tags[((n - 1) % Len(tags)) + 1]
                     IN  prefix \o tag.text \o suffix]
        all == [k \in DOMAIN day |-> day[k][1]]
                   \o [k \in DOMAIN month |-> month[k][1]]
                   \o names
        first == SelectSeq([k \in DOMAIN all |-> k],
                     LAMBDA k : \A j \in 1..(k - 1) : all[j] # all[k])
    IN  [n \in DOMAIN first |-> <<all[first[n]], frequencies(all[first[n]])>>]

\* variables_output_map[variable] of lines 203-205 of build_zarr.py: the
\* display name, or a KeyError.
Lookup(d, key) ==
    IF key \in Keys(d)
    THEN [raised |-> FALSE, value |-> Get(d, key, "")]
    ELSE [raised |-> TRUE, value |-> ""]

TagFiles == UNION {[1..n -> TagValues] : n \in 0..MaxTags}

InitVars ==
    /\ InitWith(FirstSettings) /\ tree = NoTree
    /\ tag_csv \in TagFiles
    /\ var_args \in [experiment : {"exp1"} \cup TagExperiments,
                     frequency : {"mon", "day", "yr"}]
    /\ var_ret = NoReturn
    /\ var_disp = <<>>
    /\ bvl_ret = <<>>
    /\ CfIdle
    /\ NcIdle

\* The call of get_variables_for_experiment that main makes for a unit
\* (lines 181-183).
CallGetVariables ==
    /\ var_ret.state = "none"
    /\ LET r == get_variables_for_experiment(var_args.experiment,
                                             var_args.frequency, tag_csv)
       IN  var_ret' = [state |-> IF r.raised THEN "raised" ELSE "returned",
                       variables |-> r.variables,
                       output_map |-> r.output_map,
                       previous |-> <<>>]
    /\ UNCHANGED <<tag_csv, var_args, var_disp, bvl_ret, mainVars, cfVars,
                   ncVars>>

\* The loop over the variables of the unit (line 187) looks the display
\* name of each up (lines 203-205).
LookupDisplayNames ==
    /\ var_ret.state \in {"returned", "again"}
    /\ var_disp = <<>>
    /\ var_disp' = [k \in DOMAIN var_ret.variables |->
                       Lookup(var_ret.output_map, var_ret.variables[k])]
    /\ UNCHANGED <<tag_csv, var_args, var_ret, bvl_ret, mainVars, cfVars,
                   ncVars>>

\* The call for another unit of the same experiment and frequency class, the
\* loop of the unit before having ended.
CallGetVariablesAgain ==
    /\ var_ret.state = "returned"
    /\ var_disp # <<>>
    /\ LET r == get_variables_for_experiment(var_args.experiment,
                                             var_args.frequency, tag_csv)
       IN  var_ret' = [state |-> IF r.raised THEN "raised" ELSE "again",
                       variables |-> r.variables,
                       output_map |-> r.output_map,
                       previous |-> var_ret.variables]
    /\ var_disp' = <<>>
    /\ UNCHANGED <<tag_csv, var_args, bvl_ret, mainVars, cfVars, ncVars>>

\* build_variable_list is run for the catalogue; of its places among the
\* steps of the driver, with which it shares no state, the one before the
\* driver's first call is followed.
CallBuildVariableList ==
    /\ bvl_ret = <<>>
    /\ var_ret.state = "none"
    /\ bvl_ret' = build_variable_list(tag_csv)
    /\ UNCHANGED <<tag_csv, var_args, var_ret, var_disp, mainVars, cfVars,
                   ncVars>>

NextVars ==
    \/ CallGetVariables
    \/ LookupDisplayNames
    \/ CallGetVariablesAgain
    \/ CallBuildVariableList

SpecVars == InitVars /\ [][NextVars]_vars

\* The names derived from the tags of the tag file with the given prefixes
\* and suffixes.
Combinations(prefixes, suffixes) ==
    {pref \o tag.text \o suff :
        pref \in prefixes, suff \in suffixes, tag \in Range(tag_csv)}

VanillaNames ==
    {VanillaRows("mon")[k][1] : k \in DOMAIN VanillaRows("mon")}
        \cup {VanillaRows("day")[k][1] : k \in DOMAIN VanillaRows("day")}

\* C23: get_variables_for_experiment returns the variables in ascending
\* order of their display names together with a map that holds every
\* returned variable, so that no lookup of the driver fails and each yields
\* the name the list is ordered by; a second call on the same arguments and
\* files returns the same list.
C23_SortedListAndTotalMap ==
    var_ret.state \in {"returned", "again"} =>
        LET display == [k \in DOMAIN var_ret.variables |->
                           Lookup(var_ret.output_map, var_ret.variables[k])]
        IN  /\ \A k \in DOMAIN display : ~display[k].raised
            /\ \A k \in 2..Len(display) :
                   IndexOf(NameOrder, display[k - 1].value)
                       <= IndexOf(NameOrder, display[k].value)
            /\ var_disp # <<>> => var_disp = display
            /\ var_ret.state = "again" => var_ret.variables = var_ret.previous

\* A tag experiment with two tags whose file order is not the order of
\* their display names: the list is returned a second time and every display
\* name has been looked up.
C23_Witness ==
    /\ var_ret.state = "again"
    /\ var_args.experiment \in TagExperiments
    /\ Len(tag_csv) = 2
    /\ tag_csv[1].text = "LAT5S"
    /\ tag_csv[2].text = "LAT15S"
    /\ Len(var_disp) = Len(var_ret.variables)
    /\ Len(var_disp) > 10
    /\ \A k \in DOMAIN var_disp : ~var_disp[k].raised

\* C29: for an experiment whose name holds "tag" the returned list holds
\* prefix+tag+suffix for every tag, every prefix and every suffix, which
\* are the tag-derived names of build_variable_list; for another experiment
\* it holds no tag-derived name.
C29_TagNamesAsBuildVariableList ==
    (var_ret.state \in {"returned", "again"} /\ bvl_ret # <<>>) =>
        LET returned == Range(var_ret.variables) \ VanillaNames
            generated == {bvl_ret[k][1] : k \in DOMAIN bvl_ret} \ VanillaNames
        IN  IF var_args.experiment \in TagExperiments
            THEN /\ Combinations(Range(tags_pref), Range(tags_suff))
                        \subseteq Range(var_ret.variables)
                 /\ returned = generated
            ELSE returned = {}

\* -------------------------------------------------- add_cf_conventions.py
\* The standard names of the CF master list and the name proposed for a
\* variable.

\* An excerpt of CF_MAPPINGS.
CF_MAPPINGS ==
    <<<<"PRECL", "stratiform_precipitation_flux">>,
      <<"T", "air_temperature">>>>

\* The variable names the function is called with.  A name is its text and
\* what the tests of the function find in it: the substrings it holds and
\* the prefixes it starts with.
VarNameValues ==
    {[text |-> "T",
      has |-> {},
      startswith |-> {}],
     [text |-> "PRECL",
      has |-> {},
      startswith |-> {}],
     [text |-> "XYZ",
      has |-> {},
      startswith |-> {}],
     [text |-> "H2OV",
      has |-> {"H2O"},
      startswith |-> {}],
     [text |-> "LAT5SV",
      has |-> {},
      startswith |-> {"LAT"}],
     [text |-> "PRECRC_LAT5Sr",
      has |-> {},
      startswith |-> {"PRECRC_"}],
     [text |-> "PRECSL_LAT5SS",
      has |-> {},
      startswith |-> {"PRECSL_"}],
     [text |-> "PRECT_HDO",
      has |-> {"HDO"},
      startswith |-> {"PRECT_"}],
     [text |-> "QFLX_HDO",
      has |-> {"HDO"},
      startswith |-> {"QFLX_"}]}

\* The long names: the text, the substrings it holds and the substrings its
\* lower-case form holds.
LongNameValues ==
    {[text |-> "",
      has |-> {},
      lower_has |-> {}],
     [text |-> "Temperature",
      has |-> {},
      lower_has |-> {"temperature"}],
     [text |-> "Surface temperature (radiative)",
      has |-> {},
      lower_has |-> {"temperature", "surface"}],
     [text |-> "Large-scale (stable) precipitation rate (liq + ice)",
      has |-> {},
      lower_has |-> {"precipitation", "precip", "large", "stable"}],
     [text |-> "Convective precipitation rate",
      has |-> {},
      lower_has |-> {"precipitation", "precip", "convective"}],
     [text |-> "Total precip",
      has |-> {},
      lower_has |-> {"precip"}],
     [text |-> "Convective snow rate (water equivalent)",
      has |-> {},
      lower_has |-> {"convective", "snow"}],
     [text |-> "Large-scale snow rate",
      has |-> {},
      lower_has |-> {"large", "snow"}],
     [text |-> "Snow depth",
      has |-> {},
      lower_has |-> {"snow"}],
     [text |-> "Specific humidity",
      has |-> {},
      lower_has |-> {"humidity"}],
     [text |-> "Sea level pressure",
      has |-> {},
      lower_has |-> {"pressure", "sea level"}],
     [text |-> "Surface pressure",
      has |-> {},
      lower_has |-> {"surface", "pressure"}],
     [text |-> "Pressure",
      has |-> {},
      lower_has |-> {"pressure"}],
     [text |-> "Zonal wind",
      has |-> {},
      lower_has |-> {"wind", "zonal"}],
     [text |-> "Meridional wind",
      has |-> {},
      lower_has |-> {"wind", "meridional"}],
     [text |-> "Wind speed",
      has |-> {},
      lower_has |-> {"wind"}],
     [text |-> "Vertically-integrated total cloud fraction",
      has |-> {},
      lower_has |-> {"cloud", "fraction"}],
     [text |-> "Cloud water",
      has |-> {},
      lower_has |-> {"cloud"}],
     [text |-> "LAT5S tagged water VAPOR mmr",
      has |-> {"VAPOR"},
      lower_has |-> {"mmr"}],
     [text |-> "HDO water isotope ICE",
      has |-> {"HDO", "ICE"},
      lower_has |-> {"isotope"}],
     [text |-> "H2O LIQUID mmr",
      has |-> {"H2O", "LIQUID"},
      lower_has |-> {"mmr"}],
     [text |-> "HDO RAINC mmr",
      has |-> {"HDO", "RAIN", "RAINC"},
      lower_has |-> {"mmr"}],
     [text |-> "H218O SNOWS isotope",
      has |-> {"H218O", "SNOW", "SNOWS"},
      lower_has |-> {"isotope", "snow"}],
     [text |-> "VAPOR mmr",
      has |-> {"VAPOR"},
      lower_has |-> {"mmr"}],
     [text |-> "H2O isotope tracer",
      has |-> {"H2O"},
      lower_has |-> {"isotope"}],
     [text |-> "tagged RAIN",
      has |-> {"RAIN"},
      lower_has |-> {}],
     [text |-> "tagged SNOW",
      has |-> {"SNOW"},
      lower_has |-> {"snow"}],
     [text |-> "tagged VAPOR",
      has |-> {"VAPOR"},
      lower_has |-> {}],
     [text |-> "tagged LIQUID",
      has |-> {"LIQUID"},
      lower_has |-> {}]}

\* One piece of a 'Standard Name' cell between commas or newlines: the piece
\* stripped, whether it holds a double quote, and the stripped text before
\* the first quote.
Part(text) == [stripped |-> text, quote |-> FALSE, before |-> text]
Described(text) ==
    [stripped |-> text \o "\"Description\"", quote |-> TRUE, before |-> text]
Blank == [stripped |-> "", quote |-> FALSE, before |-> ""]

\* The rows a master file may hold.  A cell that the row is too short for
\* is None.
CfRowValues ==
    {[standard_none |-> FALSE,
      standard |-> <<Part("precipitation_flux"), Part("snowfall_flux")>>,
      alias_none |-> FALSE, alias |-> "stratiform_precipitation_flux"],
     [standard_none |-> FALSE,
      standard |-> <<Described("specific_humidity"), Described("")>>,
      alias_none |-> FALSE, alias |-> ""],
     [standard_none |-> FALSE,
      standard |-> <<Blank, Part("convective_precipitation_flux")>>,
      alias_none |-> FALSE, alias |-> "precipitation_flux"],
     [standard_none |-> FALSE, standard |-> <<Described("")>>,
      alias_none |-> FALSE, alias |-> "air_temperature"],
     [standard_none |-> TRUE, standard |-> <<>>,
      alias_none |-> TRUE, alias |-> ""],
     [standard_none |-> FALSE, standard |-> <<Part("air_pressure")>>,
      alias_none |-> TRUE, alias |-> ""]}

\* The master files: none at the path, or up to MaxRows rows.
CfFiles ==
    {[exists |-> FALSE, rows |-> <<>>]}
        \cup {[exists |-> TRUE, rows |-> r] :
                 r \in UNION {[1..n -> CfRowValues] : n \in 0..MaxRows}}

\* Lines 131-144: the names a row adds to VALID_NAMES, in the order of the
\* cell.
CleanParts(row) ==
    LET clean == [k \in DOMAIN row.standard |->
                     IF row.standard[k].stripped = "" THEN ""
                     ELSE IF row.standard[k].quote
                          THEN row.standard[k].before
                          ELSE row.standard[k].stripped]
    IN  SelectSeq(clean, LAMBDA c : c # "")

\* load_cf_master: nothing when the file is missing; else row by row every
\* clean name is added to VALID_NAMES and the alias, when the row has one
\* and a first clean name, is set to that name.  A cell that is None raises
\* at its strip(): the except clause ends the loading and keeps what the
\* rows before, and the row's own names when the alias was the None, have
\* added.
load_cf_master(master_file, valid, aliases) ==
    IF ~master_file.exists
    THEN [VALID_NAMES |-> valid, ALIAS_MAP |-> aliases]
    ELSE LET rows == master_file.rows
             raises(k) == rows[k].standard_none \/ rows[k].alias_none
             stop == IF \E k \in DOMAIN rows : raises(k)
                     THEN CHOOSE k \in DOMAIN rows :
                              /\ raises(k)
                              /\ \A j \in 1..(k - 1) : ~raises(j)
                     ELSE Len(rows) + 1
             added == UNION {Range(CleanParts(rows[k])) :
                                k \in {j \in DOMAIN rows :
                                          /\ j <= stop
                                          /\ ~rows[j].standard_none}}
             whole == SelectSeq([k \in DOMAIN rows |-> k],
                          LAMBDA k : /\ k < stop
                                     /\ rows[k].alias # ""
                                     /\ CleanParts(rows[k]) # <<>>)
         IN  [VALID_NAMES |-> valid \cup added,
              ALIAS_MAP |->
                  DictOf(aliases \o
                         [n \in DOMAIN whole |->
                             <<rows[whole[n]].alias,
                               CleanParts(rows[whole[n]])[1]>>])]

\* Lines 160-241: the name proposed for the variable, "" for none.
Candidate(var_name, long_name) ==
    LET in_long(w) == w \in long_name.has
        in_lower(w) == w \in long_name.lower_has
        starts(w) == w \in var_name.startswith
        first ==
            IF var_name.text \in Keys(CF_MAPPINGS)
            THEN Get(CF_MAPPINGS, var_name.text, "")
            ELSE IF in_lower("isotope") \/ in_lower("mmr")
            THEN IF \/ var_name.has # {}
                    \/ long_name.has \cap {"H216O", "H218O", "H2O", "HDO"} # {}
                    \/ starts("LAT") \/ starts("LON")
                 THEN IF in_long("VAPOR") THEN "specific_humidity"
                      ELSE IF in_long("ICE")
                      THEN "mass_fraction_of_cloud_ice_in_air"
                      ELSE IF in_long("LIQUID")
                      THEN "mass_fraction_of_cloud_liquid_water_in_air"
                      ELSE IF in_long("RAIN") \/ in_long("RAINC")
                                  \/ in_long("RAINS")
                      THEN "precipitation_flux"
                      ELSE IF in_long("SNOW") \/ in_long("SNOWC")
                                  \/ in_long("SNOWS")
                      THEN "snowfall_flux"
                      ELSE ""
                 ELSE ""
            ELSE IF starts("PRECRC_") \/ starts("PRECRL_")
            THEN "precipitation_flux"
            ELSE IF starts("PRECSC_") \/ starts("PRECSL_")
            THEN "snowfall_flux"
            ELSE IF starts("PRECT_") THEN "precipitation_flux"
            ELSE IF starts("QFLX_") THEN "water_evaporation_flux"
            ELSE IF starts("LAT") \/ starts("LON")
            THEN IF in_long("VAPOR") THEN "specific_humidity"
                 ELSE IF in_long("RAIN") \/ in_long("RAINC")
                             \/ in_long("RAINS")
                 THEN "precipitation_flux"
                 ELSE IF in_long("SNOW") \/ in_long("SNOWC")
                             \/ in_long("SNOWS")
                 THEN "snowfall_flux"
                 ELSE ""
            ELSE ""
        scale(convective, stratiform, plain) ==
            IF in_lower("convective") THEN convective
            ELSE IF in_lower("large") \/ in_lower("stable") THEN stratiform
            ELSE plain
    IN  IF first # "" THEN first
        ELSE IF in_lower("temperature")
        THEN IF in_lower("surface") \/ in_lower("sfc")
             THEN "surface_temperature" ELSE "air_temperature"
        ELSE IF in_lower("precipitation") \/ in_lower("precip")
        THEN scale("convective_precipitation_flux",
                   "stratiform_precipitation_flux", "precipitation_flux")
        ELSE IF in_lower("snow")
        THEN scale("convective_snowfall_flux", "stratiform_snowfall_flux",
                   "snowfall_flux")
        ELSE IF in_lower("humidity") THEN "specific_humidity"
        ELSE IF in_lower("pressure")
        THEN IF in_lower("sea level") THEN "air_pressure_at_sea_level"
             ELSE IF in_lower("surface") THEN "surface_air_pressure"
             ELSE "air_pressure"
        ELSE IF in_lower("wind")
        THEN IF in_lower("zonal") \/ in_lower("eastward")
             THEN "eastward_wind"
             ELSE IF in_lower("meridional") \/ in_lower("northward")
             THEN "northward_wind"
             ELSE ""
        ELSE IF in_lower("cloud")
        THEN IF in_lower("fraction") THEN "cloud_area_fraction" ELSE ""
        ELSE ""

\* Mutant of get_cf_standard_name: the proposed name is returned as it is.
get_cf_standard_name_proposed(var_name, long_name, valid, aliases) ==
    Candidate(var_name, long_name)

\* get_cf_standard_name: the proposed name when VALID_NAMES holds it, the
\* name ALIAS_MAP gives for it when it is an alias, else ''.
get_cf_standard_name(var_name, long_name, valid, aliases) ==
    LET candidate == Candidate(var_name, long_name)
    IN  IF candidate = "" THEN ""
        ELSE IF candidate \in valid THEN candidate
        ELSE IF candidate \in Keys(aliases) THEN Get(aliases, candidate, "")
        ELSE ""

InitCf ==
    /\ InitWith(FirstSettings) /\ tree = NoTree
    /\ ListsIdle
    /\ CfIdle
    /\ NcIdle

\* A call of load_cf_master, as process_csv makes for each file it is run
\* on; the globals keep what earlier calls loaded.
LoadCfMaster ==
    /\ cf_loads < MaxCalls
    /\ \E master_file \in CfFiles :
           LET r == load_cf_master(master_file, VALID_NAMES, ALIAS_MAP)
           IN  /\ VALID_NAMES' = r.VALID_NAMES
               /\ ALIAS_MAP' = r.ALIAS_MAP
    /\ cf_loads' = cf_loads + 1
    /\ UNCHANGED <<cf_ret, mainVars, listsVars, ncVars>>

\* A call of get_cf_standard_name for a row of the input.
GetCfStandardName ==
    /\ \E var_name \in VarNameValues, long_name \in LongNameValues :
           cf_ret' = [called |-> TRUE,
                      candidate |-> Candidate(var_name, long_name),
                      name |-> get_cf_standard_name(var_name, long_name,
                                                    VALID_NAMES, ALIAS_MAP)]
    /\ UNCHANGED <<VALID_NAMES, ALIAS_MAP, cf_loads, mainVars, listsVars,
                   ncVars>>

NextCf ==
    \/ LoadCfMaster
    \/ GetCfStandardName

SpecCf == InitCf /\ [][NextCf]_vars

\* C24: after any sequence of loads every name ALIAS_MAP gives is in
\* VALID_NAMES, and get_cf_standard_name returns '' or a name of
\* VALID_NAMES, also when it resolves an alias.
C24_OnlyValidNames ==
    /\ \A k \in DOMAIN ALIAS_MAP : ALIAS_MAP[k][2] \in VALID_NAMES
    /\ "" \notin VALID_NAMES
    /\ cf_ret.called => (cf_ret.name = "" \/ cf_ret.name \in VALID_NAMES)

\* After two loads the proposed name was an alias and not a valid name, and
\* the name returned is the one the alias stands for.
C24_Witness ==
    /\ cf_loads = 2
    /\ cf_ret.called
    /\ cf_ret.candidate \notin VALID_NAMES
    /\ cf_ret.candidate \in Keys(ALIAS_MAP)
    /\ cf_ret.name = Get(ALIAS_MAP, cf_ret.candidate, "")
    /\ cf_ret.name \in VALID_NAMES

\* ------------------------------------------------- fix_duplicate_times.py
\* The repair of a file whose time axis holds a time more than once.

\* The time values of a file.
TimeValues == 1..4

\* Mutant of first_unique_time_indices: an index is kept when its value
\* differs from the value before it.
first_unique_time_indices_adjacent(time_values) ==
    SelectSeq([k \in DOMAIN time_values |-> k - 1],
              LAMBDA i : i = 0 \/ time_values[i] # time_values[i + 1])

\* first_unique_time_indices: the indices, counted from 0, whose value no
\* earlier index holds, in the order of the enumeration.
first_unique_time_indices(time_values) ==
    SelectSeq([k \in DOMAIN time_values |-> k - 1],
              LAMBDA i : \A j \in 0..(i - 1) :
                             time_values[j + 1] # time_values[i + 1])

\* ds.isel(time=keep)
isel(time_values, keep) == [n \in DOMAIN keep |-> time_values[keep[n] + 1]]

InitNc ==
    /\ InitWith(FirstSettings) /\ tree = NoTree
    /\ ListsIdle
    /\ CfIdle
    /\ nc_time \in UNION {[1..n -> TimeValues] : n \in 0..MaxRecords}
    /\ nc_calls = <<>>

\* fix_file: the file is left as it is when every index is kept, else the
\* kept records are written to a temporary file that then takes the file's
\* place.
FixFile ==
    /\ Len(nc_calls) < MaxCalls
    /\ LET n_total == Len(nc_time)
           keep == first_unique_time_indices(nc_time)
           n_unique == Len(keep)
       IN  IF n_unique = n_total
           THEN /\ nc_calls' = Append(nc_calls,
                                      [did |-> "SKIP", before |-> nc_time,
                                       keep |-> keep])
                /\ UNCHANGED nc_time
           ELSE /\ nc_calls' = Append(nc_calls,
                                      [did |-> "FIX", before |-> nc_time,
                                       keep |-> keep])
                /\ nc_time' = isel(nc_time, keep)
    /\ UNCHANGED <<mainVars, listsVars, cfVars>>

NextNc == FixFile

SpecNc == InitNc /\ [][NextNc]_vars

\* The time values the file held after the c-th call of fix_file.
TimeAfter(c) == IF c = Len(nc_calls) THEN nc_time ELSE nc_calls[c + 1].before

\* C25: the indices first_unique_time_indices returns increase strictly and
\* are the first occurrences of the distinct values; the records selected
\* are one per distinct time in the order of the file; on a repaired file
\* every index is selected and fix_file writes nothing.
C25_FirstOccurrencesIdempotent ==
    \A c \in DOMAIN nc_calls :
        LET time_values == nc_calls[c].before
            keep == nc_calls[c].keep
            after == TimeAfter(c)
        IN  /\ \A m, n \in DOMAIN keep : m < n => keep[m] < keep[n]
            /\ Range(keep)
                   = {i \in 0..(Len(time_values) - 1) :
                         \A j \in 0..(Len(time_values) - 1) :
                             time_values[j + 1] = time_values[i + 1] => i <= j}
            /\ Len(keep) = Cardinality(Range(time_values))
            /\ after = isel(time_values, keep)
            /\ Range(after) = Range(time_values)
            /\ Len(after) = Cardinality(Range(after))
            /\ nc_calls[c].did = "SKIP" <=> after = time_values
            /\ c > 1 =>
                   /\ keep = [k \in DOMAIN time_values |-> k - 1]
                   /\ nc_calls[c].did = "SKIP"

\* A file whose first time comes back after another one is repaired by the
\* first call and skipped by the second.
C25_Witness ==
    /\ Len(nc_calls) = 2
    /\ nc_calls[1].before = <<2, 1, 2>>
    /\ nc_calls[1].did = "FIX"
    /\ nc_calls[1].keep = <<0, 1>>
    /\ nc_calls[2].did = "SKIP"
    /\ nc_time = <<2, 1>>

====
